---- MODULE Spec2Model ----
(***************************************************************************)
(* Verification model of the PharmIQ derivation pipeline:                  *)
(*   SnapshotAggregationEngine (src/src/aggregation/snapshot_engine.py)    *)
(*   BundleMetricsEngine       (src/src/metrics/bundle_metrics_engine.py)  *)
(*   BundleRiskScoringEngine   (src/src/risk/risk_scoring_engine.py)       *)
(*                                                                         *)
(* Conventions                                                             *)
(*   - Optional numeric fields hold None when absent; optional strings     *)
(*     hold NoneStr.                                                       *)
(*   - Timestamps and dates are whole days (day numbers, never day 0).     *)
(*   - Scores and driver weights are integers in percent (0..100);         *)
(*     probabilities and their thresholds, being products of a weight and  *)
(*     a score, are integers in 1/10000 (0..10000).  The scores of the     *)
(*     metrics engine are integers in 1/10000 as well, a division         *)
(*     rounding down.                                                      *)
(*   - Generated identifiers (uuid-based) are fresh integers.              *)
(*   - Descriptive attributes no decision reads (drug, quantity, status    *)
(*     strings, correlation id) are not carried.                           *)
(***************************************************************************)
EXTENDS Integers, Sequences, FiniteSets, TLC

VARIABLES
    audit_logger,      \* which audit logger the engines were constructed with
    snapshot_cache,    \* SnapshotAggregationEngine._snapshot_cache
    event_index,       \* SnapshotAggregationEngine._event_index  (member -> ids)
    bundle_index,      \* SnapshotAggregationEngine._bundle_index (bundle -> ids)
    next_snapshot_id,  \* next fresh snapshot identifier
    agg_result,        \* outcome of the last aggregator call
    risk_cache,        \* BundleRiskScoringEngine._risk_cache
    bundle_risk_index, \* BundleRiskScoringEngine._bundle_risk_index
    member_risk_index, \* BundleRiskScoringEngine._member_risk_index
    version_records,   \* VersionRegistry._records, in registration order
    next_risk_id,      \* next fresh risk identifier
    risk_result,       \* outcome of the last risk scorer call
    metrics_cache,         \* BundleMetricsEngine._metrics_cache
    member_metrics_index,  \* BundleMetricsEngine._member_metrics_index
    bundle_metrics_index,  \* BundleMetricsEngine._bundle_metrics_index
    metrics_result         \* outcome of the last metrics engine call

aggVars == <<snapshot_cache, event_index, bundle_index, next_snapshot_id, agg_result>>

riskVars ==
    <<risk_cache, bundle_risk_index, member_risk_index, version_records,
      next_risk_id, risk_result>>

metricsVars ==
    <<metrics_cache, member_metrics_index, bundle_metrics_index,
      metrics_result>>

vars == <<audit_logger, aggVars, riskVars, metricsVars>>

-----------------------------------------------------------------------------
(* Bounds *)

MaxEvents == 3

MaxTime == 2

MaxSnapshots == 1

MaxInput == 1

\* snapshots cached by the aggregations of SpecRepeat
MaxAggregations == 2

\* the number of index entries up to which compute_metrics is called again
MaxComputes == 2

MaxBatch == 3

MaxRisks == 2

MaxSiblings == 3


-----------------------------------------------------------------------------
(* Absent values *)

None == -999

NoneStr == "None"

Truthy(x) == x # None /\ x # 0

Max2(a, b) == IF a >= b THEN a ELSE b

\* datetime.now(): every event of the model lies in the past
Now == MaxTime + 1

-----------------------------------------------------------------------------
(* Events: src/src/models/events.py *)

RefillTypes == {"refill_initiated", "refill_eligible", "refill_bundled",
                "refill_shipped", "refill_cancelled", "refill_completed"}

PATypes == {"pa_submitted", "pa_approved", "pa_denied", "pa_expired"}

OOSTypes == {"oos_detected", "oos_resolved"}

BundleTypes == {"bundle_formed", "bundle_split", "bundle_shipped"}

EventType == RefillTypes \cup PATypes \cup OOSTypes \cup BundleTypes

\* create_canonical_event: the event class an event type is built as
EventClass(event_type) ==
    IF event_type \in PATypes THEN "PAEvent"
    ELSE IF event_type \in OOSTypes THEN "OSEvent"
    ELSE IF event_type \in BundleTypes THEN "BundleEvent"
    ELSE "RefillEvent"

\* identifiers that contain the substring "pa_" (case-insensitively)
IdsWithPa == {"evt_pa_sub", "evt_pa_res", "EVT_PA_X"}

ContainsPa(event_id) == event_id \in IdsWithPa

Ev(id, m, r, b, type, ts, score, patype) ==
    [event_id |-> id, member_id |-> m, refill_id |-> r, bundle_id |-> b,
     event_type |-> type, event_timestamp |-> ts,
     bundle_alignment_score |-> score, pa_type |-> patype,
     bundle_refill_count |-> None, days_supply |-> None,
     refill_due_date |-> None, last_fill_date |-> None]


-----------------------------------------------------------------------------
(* Snapshot folding: src/src/aggregation/snapshot_engine.py *)

\* sorted(events, key=lambda e: e.event_timestamp): a stable sort, so events
\* with equal timestamps keep their input order
RECURSIVE InsertSorted(_, _)
InsertSorted(sorted, e) ==
    IF sorted = << >> THEN <<e>>
    ELSE IF Head(sorted).event_timestamp <= e.event_timestamp
         THEN <<Head(sorted)>> \o InsertSorted(Tail(sorted), e)
         ELSE <<e>> \o sorted

RECURSIVE SortByTimestamp(_)
SortByTimestamp(events) ==
    IF events = << >> THEN << >>
    ELSE InsertSorted(SortByTimestamp(SubSeq(events, 1, Len(events) - 1)),
                      events[Len(events)])

\* RefillSnapshot(...) as constructed by aggregate_events_to_snapshot
NewSnapshot(snapshot_id, sorted_events) ==
    [snapshot_id |-> snapshot_id,
     member_id |-> sorted_events[1].member_id,
     refill_id |-> sorted_events[1].refill_id,
     bundle_id |-> sorted_events[1].bundle_id,
     current_stage |-> "initiated",
     pa_state |-> "not_required",
     bundle_timing_state |-> "unknown",
     total_events |-> Len(sorted_events),
     latest_event_timestamp |-> sorted_events[Len(sorted_events)].event_timestamp,
     earliest_event_timestamp |-> sorted_events[1].event_timestamp,
     event_ids |-> [i \in 1..Len(sorted_events) |-> sorted_events[i].event_id],
     refill_events |-> 0, pa_events |-> 0, oos_events |-> 0, bundle_events |-> 0,
     initiated_timestamp |-> None, eligible_timestamp |-> None,
     pa_submitted_timestamp |-> None, pa_resolved_timestamp |-> None,
     bundled_timestamp |-> None, shipped_timestamp |-> None,
     completed_timestamp |-> None,
     oos_detected_timestamp |-> None, oos_resolved_timestamp |-> None,
     bundle_alignment_score |-> None, pa_type |-> NoneStr,
     bundle_refill_count |-> None, days_supply |-> None,
     refill_due_date |-> None, last_fill_date |-> None,
     days_until_due |-> None, days_since_last_fill |-> None,
     days_in_current_stage |-> None, total_processing_days |-> None]

\* the milestone a refill event type records
RefillMilestone(event_type) ==
    CASE event_type = "refill_initiated" -> "initiated_timestamp"
      [] event_type = "refill_eligible" -> "eligible_timestamp"
      [] event_type = "refill_bundled" -> "bundled_timestamp"
      [] event_type = "refill_shipped" -> "shipped_timestamp"
      [] event_type = "refill_completed" -> "completed_timestamp"
      [] OTHER -> NoneStr

SetField(s, f, v) == IF f = NoneStr THEN s ELSE [s EXCEPT ![f] = v]

ProcessRefillEvent(event, s) ==
    LET s1 == [s EXCEPT
                !.days_supply = IF Truthy(event.days_supply)
                                THEN event.days_supply ELSE @,
                !.refill_due_date = IF Truthy(event.refill_due_date)
                                    THEN event.refill_due_date ELSE @,
                !.last_fill_date = IF Truthy(event.last_fill_date)
                                   THEN event.last_fill_date ELSE @,
                !.bundle_alignment_score =
                    IF event.bundle_alignment_score # None
                    THEN event.bundle_alignment_score ELSE @]
    IN SetField(s1, RefillMilestone(event.event_type), event.event_timestamp)

ProcessPAEvent(event, s) ==
    LET s1 == [s EXCEPT !.pa_type = event.pa_type]
    IN IF event.event_type = "pa_submitted"
       THEN [s1 EXCEPT !.pa_submitted_timestamp = event.event_timestamp]
       ELSE IF event.event_type \in {"pa_approved", "pa_denied", "pa_expired"}
       THEN [s1 EXCEPT !.pa_resolved_timestamp = event.event_timestamp]
       ELSE s1

ProcessOOSEvent(event, s) ==
    IF event.event_type = "oos_detected"
    THEN [s EXCEPT !.oos_detected_timestamp = event.event_timestamp]
    ELSE IF event.event_type = "oos_resolved"
    THEN [s EXCEPT !.oos_resolved_timestamp = event.event_timestamp]
    ELSE s

ProcessBundleEventMissingShipped(event, s) ==
    LET s1 == [s EXCEPT !.bundle_refill_count =
                   IF Truthy(event.bundle_refill_count)
                   THEN event.bundle_refill_count ELSE @]
    IN IF event.event_type = "bundle_formed"
       THEN [s1 EXCEPT !.bundled_timestamp = event.event_timestamp]
       ELSE s1

ProcessBundleEvent(event, s) ==
    LET s1 == [s EXCEPT !.bundle_refill_count =
                   IF Truthy(event.bundle_refill_count)
                   THEN event.bundle_refill_count ELSE @]
    IN IF event.event_type = "bundle_formed"
       THEN [s1 EXCEPT !.bundled_timestamp = event.event_timestamp]
       ELSE IF event.event_type = "bundle_shipped"
       THEN [s1 EXCEPT !.shipped_timestamp = event.event_timestamp]
       ELSE s1

\* one iteration of the loop of _process_events_for_snapshot
ProcessEvent(event, s) ==
    LET cls == EventClass(event.event_type)
        s1 == CASE cls = "RefillEvent" ->
                     ProcessRefillEvent(event, [s EXCEPT !.refill_events = @ + 1])
                [] cls = "PAEvent" ->
                     ProcessPAEvent(event, [s EXCEPT !.pa_events = @ + 1])
                [] cls = "OSEvent" ->
                     ProcessOOSEvent(event, [s EXCEPT !.oos_events = @ + 1])
                [] cls = "BundleEvent" ->
                     ProcessBundleEvent(event, [s EXCEPT !.bundle_events = @ + 1])
    IN [s1 EXCEPT !.bundle_refill_count =
            IF Truthy(event.bundle_refill_count)
            THEN event.bundle_refill_count ELSE @]

RECURSIVE ProcessEventsForSnapshot(_, _)
ProcessEventsForSnapshot(events, s) ==
    IF events = << >> THEN s
    ELSE ProcessEventsForSnapshot(Tail(events), ProcessEvent(Head(events), s))

ComputeTimingMetrics(s) ==
    [s EXCEPT
       !.days_until_due = IF Truthy(s.refill_due_date)
                          THEN s.refill_due_date - Now ELSE @,
       !.days_since_last_fill = IF Truthy(s.last_fill_date)
                                THEN Now - s.last_fill_date ELSE @,
       !.total_processing_days = IF Truthy(s.initiated_timestamp)
                                 THEN Now - s.initiated_timestamp ELSE @]


\* _determine_current_state, lines 314-336: the stage cascade.  A branch
\* that assigns nothing leaves the constructor's value (INITIATED).
DetermineStage(s) ==
    IF s.completed_timestamp # None THEN "completed"
    ELSE IF s.shipped_timestamp # None THEN "shipped"
    ELSE IF s.oos_detected_timestamp # None /\ s.oos_resolved_timestamp = None
         THEN "oos_detected"
    ELSE IF s.bundled_timestamp # None THEN "bundled"
    ELSE IF s.pa_resolved_timestamp # None
         THEN IF /\ s.pa_submitted_timestamp # None
                 /\ \E i \in 1..Len(s.event_ids) : ContainsPa(s.event_ids[i])
              THEN "pa_approved"
              ELSE s.current_stage
    ELSE IF s.pa_submitted_timestamp # None THEN "pa_pending"
    ELSE IF s.eligible_timestamp # None THEN "eligible"
    ELSE IF s.initiated_timestamp # None THEN "initiated"
    ELSE s.current_stage

\* _determine_current_state, lines 338-346
DeterminePAState(s) ==
    IF s.pa_events = 0 THEN "not_required"
    ELSE IF s.pa_submitted_timestamp # None /\ s.pa_resolved_timestamp = None
         THEN "pending"
    ELSE IF s.pa_resolved_timestamp # None THEN "approved"
    ELSE s.pa_state

\* _determine_current_state, lines 348-359 (scores in percent)
DetermineBundleTimingState(s) ==
    IF s.bundle_alignment_score # None
    THEN IF s.bundle_alignment_score >= 80 THEN "aligned"
         ELSE IF s.bundle_alignment_score >= 60 THEN "early"
         ELSE IF s.bundle_alignment_score >= 40 THEN "late"
         ELSE "misaligned"
    ELSE "unknown"

\* _determine_current_state, lines 361-371: the milestone of each stage
StageTimestamp(s, stage) ==
    CASE stage = "initiated" -> s.initiated_timestamp
      [] stage = "eligible" -> s.eligible_timestamp
      [] stage = "pa_pending" -> s.pa_submitted_timestamp
      [] stage = "pa_approved" -> s.pa_resolved_timestamp
      [] stage = "bundled" -> s.bundled_timestamp
      [] stage = "oos_detected" -> s.oos_detected_timestamp
      [] stage = "shipped" -> s.shipped_timestamp
      [] stage = "completed" -> s.completed_timestamp
      [] OTHER -> None

DetermineCurrentState(s) ==
    LET stage == DetermineStage(s)
        ts == StageTimestamp(s, stage)
    IN [s EXCEPT !.current_stage = stage,
                 !.pa_state = DeterminePAState(s),
                 !.bundle_timing_state = DetermineBundleTimingState(s),
                 !.days_in_current_stage = IF ts # None THEN Now - ts ELSE @]

\* the snapshot aggregate_events_to_snapshot builds from a non-empty list
BuildSnapshot(snapshot_id, events) ==
    LET sorted_events == SortByTimestamp(events)
    IN DetermineCurrentState(
         ComputeTimingMetrics(
           ProcessEventsForSnapshot(sorted_events,
                                    NewSnapshot(snapshot_id, sorted_events))))

-----------------------------------------------------------------------------
(* Audit logger: src/src/utils/audit.py *)

\* the log_* methods class AuditLogger defines
AuditLoggerMethods ==
    {"log_event_received", "log_event_validated", "log_event_processed",
     "log_batch_received", "log_batch_validated", "log_batch_processed",
     "log_processing_error"}

\* the side-call interface of the audit collaborator (spec section 6)
CollaboratorMethods ==
    {"log_snapshot_aggregated", "log_metrics_computed", "log_risk_assessment"}

\* "AuditLogger": the repository's class (the default of every engine);
\* "collaborator": an injected logger that offers the section 6 interface
LoggerKinds == {"AuditLogger", "collaborator"}

\* outcome of self.audit_logger.<method>(...)
AuditCall(logger, method) ==
    IF method \in AuditLoggerMethods THEN "ok"
    ELSE IF logger = "collaborator" /\ method \in CollaboratorMethods THEN "ok"
    ELSE "AttributeError"


-----------------------------------------------------------------------------
(* SnapshotAggregationEngine: cache, indices and operations *)

Members == {"member_1", "member_2"}

Refills == {"refill_1", "refill_2"}

Bundles == {"bundle_1", "bundle_2"}

NoSnapshot == [snapshot_id |-> 0]

NoResult ==
    [op |-> "none", outcome |-> "none", exc |-> NoneStr, value |-> NoSnapshot,
     built |-> NoSnapshot, input |-> << >>, sid |-> 0]

CachePut(cache, id, s) ==
    [i \in DOMAIN cache \cup {id} |-> IF i = id THEN s ELSE cache[i]]

\* aggregate_events_to_snapshot on a non-empty list: the snapshot is cached
\* and indexed before the audit call, which decides how the call ends
AggregateNonEmpty(eng, logger, events) ==
    LET snapshot == BuildSnapshot(eng.next_id, events)
        logged == AuditCall(logger, "log_snapshot_aggregated")
    IN [cache |-> CachePut(eng.cache, eng.next_id, snapshot),
        event_index |->
            [eng.event_index EXCEPT
               ![snapshot.member_id] = Append(@, eng.next_id)],
        bundle_index |->
            IF snapshot.bundle_id # NoneStr
            THEN [eng.bundle_index EXCEPT
                    ![snapshot.bundle_id] = Append(@, eng.next_id)]
            ELSE eng.bundle_index,
        next_id |-> eng.next_id + 1,
        outcome |-> IF logged = "ok" THEN "returned" ELSE "raised",
        exc |-> IF logged = "ok" THEN NoneStr ELSE logged,
        value |-> IF logged = "ok" THEN snapshot ELSE NoSnapshot,
        built |-> snapshot]

\* an empty list answered with None instead of an error
AggregateEffectEmptyReturnsNone(eng, logger, events) ==
    IF events = << >>
    THEN [cache |-> eng.cache, event_index |-> eng.event_index,
          bundle_index |-> eng.bundle_index, next_id |-> eng.next_id,
          outcome |-> "returned", exc |-> NoneStr,
          value |-> NoSnapshot, built |-> NoSnapshot]
    ELSE AggregateNonEmpty(eng, logger, events)

\* aggregate_events_to_snapshot(events) run on the engine state eng:
\* the state it leaves and how it ends
AggregateEffect(eng, logger, events) ==
    IF events = << >>
    THEN [cache |-> eng.cache, event_index |-> eng.event_index,
          bundle_index |-> eng.bundle_index, next_id |-> eng.next_id,
          outcome |-> "raised", exc |-> "ValueError",
          value |-> NoSnapshot, built |-> NoSnapshot]
    ELSE AggregateNonEmpty(eng, logger, events)

Engine ==
    [cache |-> snapshot_cache, event_index |-> event_index,
     bundle_index |-> bundle_index, next_id |-> next_snapshot_id]

\* _get_events_by_ids: the placeholder returns no events
GetEventsByIds(event_ids) == << >>

Aggregate(events) ==
    LET r == AggregateEffect(Engine, audit_logger, events)
    IN /\ snapshot_cache' = r.cache
       /\ event_index' = r.event_index
       /\ bundle_index' = r.bundle_index
       /\ next_snapshot_id' = r.next_id
       /\ agg_result' = [op |-> "aggregate", outcome |-> r.outcome,
                         exc |-> r.exc, value |-> r.value, built |-> r.built,
                         input |-> events, sid |-> 0]
       /\ UNCHANGED audit_logger

\* an unknown identifier that is entered into the member index
UpdateNotFoundTouchesIndex(snapshot_id, new_event) ==
    /\ snapshot_id \notin DOMAIN snapshot_cache
    /\ event_index' = [event_index EXCEPT
                         ![new_event.member_id] = Append(@, snapshot_id)]
    /\ agg_result' = [op |-> "update", outcome |-> "returned", exc |-> NoneStr,
                      value |-> NoSnapshot, built |-> NoSnapshot,
                      input |-> <<new_event>>, sid |-> snapshot_id]
    /\ UNCHANGED <<audit_logger, snapshot_cache, bundle_index, next_snapshot_id>>

\* update_snapshot_with_event(snapshot_id, new_event)
UpdateNotFound(snapshot_id, new_event) ==
    /\ snapshot_id \notin DOMAIN snapshot_cache
    /\ agg_result' = [op |-> "update", outcome |-> "returned", exc |-> NoneStr,
                      value |-> NoSnapshot, built |-> NoSnapshot,
                      input |-> <<new_event>>, sid |-> snapshot_id]
    /\ UNCHANGED <<audit_logger, snapshot_cache, event_index, bundle_index,
                   next_snapshot_id>>

UpdateMismatch(snapshot_id, new_event) ==
    /\ snapshot_id \in DOMAIN snapshot_cache
    /\ \/ new_event.member_id # snapshot_cache[snapshot_id].member_id
       \/ new_event.refill_id # snapshot_cache[snapshot_id].refill_id
    /\ LET logged == AuditCall(audit_logger, "log_event_processing_error")
       IN agg_result' =
            [op |-> "update",
             outcome |-> IF logged = "ok" THEN "returned" ELSE "raised",
             exc |-> IF logged = "ok" THEN NoneStr ELSE logged,
             value |-> NoSnapshot, built |-> NoSnapshot,
             input |-> <<new_event>>, sid |-> snapshot_id]
    /\ UNCHANGED <<audit_logger, snapshot_cache, event_index, bundle_index,
                   next_snapshot_id>>

UpdateMatched(snapshot_id, new_event) ==
    /\ snapshot_id \in DOMAIN snapshot_cache
    /\ new_event.member_id = snapshot_cache[snapshot_id].member_id
    /\ new_event.refill_id = snapshot_cache[snapshot_id].refill_id
    /\ snapshot_cache[snapshot_id].total_events < MaxEvents
    /\ LET old == snapshot_cache[snapshot_id]
           \* lines 119-121 mutate the cached object in place
           touched == [old EXCEPT
                         !.event_ids = Append(@, new_event.event_id),
                         !.total_events = @ + 1,
                         !.latest_event_timestamp =
                             Max2(@, new_event.event_timestamp)]
           eng == [Engine EXCEPT !.cache = CachePut(@, snapshot_id, touched)]
           r == AggregateEffect(eng, audit_logger,
                                GetEventsByIds(touched.event_ids))
       IN /\ snapshot_cache' =
               IF r.outcome = "returned"
               THEN CachePut(r.cache, snapshot_id, r.value)
               ELSE r.cache
          /\ event_index' = r.event_index
          /\ bundle_index' = r.bundle_index
          /\ next_snapshot_id' = r.next_id
          /\ agg_result' = [op |-> "update", outcome |-> r.outcome,
                            exc |-> r.exc, value |-> r.value,
                            built |-> r.built,
                            input |-> <<new_event>>, sid |-> snapshot_id]
    /\ UNCHANGED audit_logger


-----------------------------------------------------------------------------
(* Risk scorer: src/src/risk/risk_scoring_engine.py *)

Min2(a, b) == IF a <= b THEN a ELSE b

\* RiskModelConfig defaults
DefaultThresholds == [low |-> 3000, medium |-> 6000, high |-> 8000]

\* weights under which the drivers of the abandonment probability are found
DriverWeightAbandonmentNames(driver_type) ==
    CASE driver_type = "refill_gap_anomaly" -> 30
      [] driver_type = "supply_buffer_depletion" -> 25
      [] driver_type = "member_behavior_change" -> 20
      [] driver_type = "stage_aging" -> 15
      [] driver_type = "bundle_fragmentation" -> 10
      [] OTHER -> 0

\* self.driver_weights.get(driver_type, 0)
DriverWeight(driver_type) ==
    CASE driver_type = "timing_misalignment" -> 30
      [] driver_type = "pa_processing_delay" -> 25
      [] driver_type = "oos_disruption" -> 20
      [] driver_type = "stage_aging" -> 15
      [] driver_type = "bundle_fragmentation" -> 10
      [] OTHER -> 0

\* the intuitive mapping: the label of the highest threshold reached
DetermineRiskSeverityByName(probability, thresholds) ==
    IF probability >= thresholds.high THEN "high"
    ELSE IF probability >= thresholds.medium THEN "medium"
    ELSE "low"

DetermineRiskSeverity(probability, thresholds) ==
    IF probability >= thresholds.high THEN "critical"
    ELSE IF probability >= thresholds.medium THEN "high"
    ELSE IF probability >= thresholds.low THEN "medium"
    ELSE "low"

\* max_age_days.get(current_stage, 7)
MaxAgeDays(current_stage) ==
    CASE current_stage = "initiated" -> 7
      [] current_stage = "eligible" -> 14
      [] current_stage = "pa_pending" -> 10
      [] current_stage = "pa_approved" -> 7
      [] current_stage = "bundled" -> 5
      [] current_stage = "oos_detected" -> 3
      [] current_stage \in {"shipped", "completed"} -> 0
      [] OTHER -> 7

\* the division by max_days raises for the stages whose maximum is 0
StageAgingRaises(metrics) == MaxAgeDays(metrics.current_stage) = 0

\* min(1.0, days_in_stage / max_days), in percent
ComputeStageAgingRisk(metrics) ==
    Min2(100, (metrics.days_in_current_stage * 100)
                 \div MaxAgeDays(metrics.current_stage))

ComputePAProcessingRisk(metrics) ==
    IF metrics.current_stage \in {"pa_pending", "pa_approved"}
    THEN ComputeStageAgingRisk(metrics) ELSE 0

ComputeOOSDisruptionRisk(metrics) ==
    IF metrics.current_stage = "oos_detected" THEN 80 ELSE 0

\* sum of weight * score over the drivers, clamped to [0, 1]
ComputeBreakProbability(metrics) ==
    LET pa_score == ComputePAProcessingRisk(metrics)
        oos_score == ComputeOOSDisruptionRisk(metrics)
        weighted_score ==
            DriverWeight("timing_misalignment")
                * (100 - metrics.timing_alignment_score)
            + DriverWeight("bundle_fragmentation") * metrics.fragmentation_risk
            + DriverWeight("stage_aging") * ComputeStageAgingRisk(metrics)
            + DriverWeight("bundle_health") * (100 - metrics.bundle_health_score)
            + (IF pa_score > 0
               THEN DriverWeight("pa_processing_delay") * pa_score ELSE 0)
            + (IF oos_score > 0
               THEN DriverWeight("oos_disruption") * oos_score ELSE 0)
    IN Min2(10000, Max2(0, weighted_score))

\* _compute_engagement_score, in 1/1000
ComputeEngagementScore(metrics) ==
    Max2(0, metrics.gap_efficiency_score * 10
              - ComputeStageAgingRisk(metrics) * 3)

\* _compute_engagement_risk, in 1/1000
ComputeEngagementRisk(metrics) == 1000 - ComputeEngagementScore(metrics)

\* _compute_bundle_context_risk, in 1/1000
ComputeBundleContextRisk(metrics) ==
    IF metrics.bundle_refill_count <= 1 THEN 0
    ELSE metrics.fragmentation_risk * 5

\* _compute_abandonment_probability: sum of weight * score over the
\* drivers, clamped to [0, 1]
ComputeAbandonmentProbability(metrics) ==
    LET bundle_score == ComputeBundleContextRisk(metrics)
        weighted_score ==
            DriverWeight("refill_gap_anomaly") * metrics.abandonment_risk
            + DriverWeight("supply_buffer_depletion") * metrics.urgency_score
            + DriverWeight("stage_aging") * ComputeStageAgingRisk(metrics)
            + (DriverWeight("member_behavior_change")
                 * ComputeEngagementRisk(metrics)) \div 10
            + (IF bundle_score > 0
               THEN (DriverWeight("bundle_fragmentation") * bundle_score)
                        \div 10
               ELSE 0)
    IN Min2(10000, Max2(0, weighted_score))

\* the stage aging driver puts stage_age_percentile into metric_values
\* (Dict[str, float]): RiskDriver rejects an absent percentile
AgingDriverRaises(metrics, threshold) ==
    /\ ComputeStageAgingRisk(metrics) > threshold
    /\ metrics.stage_age_percentile = None

\* a RiskDriver: the fields the ranking reads
Driver(driver_type, driver_name, impact_score) ==
    [driver_type |-> driver_type, driver_name |-> driver_name,
     impact_score |-> impact_score]

\* drivers.append(...) under its condition
EmittedIf(condition, driver) == IF condition THEN <<driver>> ELSE << >>

\* drivers.sort(key=lambda d: d.impact_score, reverse=True): a stable sort,
\* so drivers of equal impact keep their order of emission
RECURSIVE InsertByImpact(_, _)
InsertByImpact(sorted, d) ==
    IF sorted = << >> THEN <<d>>
    ELSE IF Head(sorted).impact_score >= d.impact_score
         THEN <<Head(sorted)>> \o InsertByImpact(Tail(sorted), d)
         ELSE <<d>> \o sorted

RECURSIVE SortByImpact(_)
SortByImpact(drivers) ==
    IF drivers = << >> THEN << >>
    ELSE InsertByImpact(SortByImpact(SubSeq(drivers, 1, Len(drivers) - 1)),
                        drivers[Len(drivers)])

\* a split of the drivers in their order of emission
SplitDriversUnsorted(drivers) ==
    [primary |-> SubSeq(drivers, 1, Min2(2, Len(drivers))),
     secondary |-> SubSeq(drivers, 3, Len(drivers))]

\* sort, then primary_drivers = drivers[:2], secondary_drivers = drivers[2:]
SplitDrivers(drivers) ==
    LET sorted == SortByImpact(drivers)
    IN [primary |-> SubSeq(sorted, 1, Min2(2, Len(sorted))),
        secondary |-> SubSeq(sorted, 3, Len(sorted))]

\* the drivers _identify_bundle_break_drivers emits, in order of emission
BundleBreakDrivers(metrics) ==
    EmittedIf(metrics.timing_alignment_score < 70,
              Driver("timing_misalignment", "Bundle Timing Misalignment",
                     100 - metrics.timing_alignment_score))
    \o EmittedIf(metrics.fragmentation_risk > 50,
                 Driver("bundle_fragmentation", "Bundle Fragmentation Risk",
                        metrics.fragmentation_risk))
    \o EmittedIf(ComputeStageAgingRisk(metrics) > 60,
                 Driver("stage_aging", "Stage Aging Risk",
                        ComputeStageAgingRisk(metrics)))
    \o EmittedIf(metrics.bundle_health_score < 50,
                 Driver("bundle_fragmentation", "Poor Bundle Health",
                        100 - metrics.bundle_health_score))

\* _identify_bundle_break_drivers
IdentifyBundleBreakDrivers(metrics) == SplitDrivers(BundleBreakDrivers(metrics))

\* the drivers _identify_abandonment_drivers emits, in order of emission
AbandonmentDrivers(metrics) ==
    EmittedIf(metrics.abandonment_risk > 40,
              Driver("refill_gap_anomaly", "Refill Gap Anomaly",
                     metrics.abandonment_risk))
    \o EmittedIf(metrics.urgency_score > 70,
                 Driver("supply_buffer_depletion", "Supply Buffer Depletion",
                        metrics.urgency_score))
    \o EmittedIf(ComputeStageAgingRisk(metrics) > 50,
                 Driver("stage_aging", "Stage Aging Risk",
                        ComputeStageAgingRisk(metrics)))

\* _identify_abandonment_drivers
IdentifyAbandonmentDrivers(metrics) == SplitDrivers(AbandonmentDrivers(metrics))

RiskPut(cache, id, r) ==
    [i \in DOMAIN cache \cup {id} |-> IF i = id THEN r ELSE cache[i]]

IndexAppend(index, key, id) ==
    [k \in DOMAIN index \cup {key} |->
        IF k = key
        THEN (IF key \in DOMAIN index THEN Append(index[key], id) ELSE <<id>>)
        ELSE index[k]]

RiskEngine ==
    [cache |-> risk_cache, bundle_index |-> bundle_risk_index,
     member_index |-> member_risk_index, records |-> version_records,
     next_id |-> next_risk_id]

NoRisk == [risk_id |-> 0]

Raised(eng, exc) ==
    [eng |-> eng, outcome |-> "raised", exc |-> exc, value |-> NoRisk]

\* assess_bundle_break_risk(metrics, bundle_snapshots)
AssessBundleBreakRisk(eng, logger, metrics) ==
    IF StageAgingRaises(metrics) THEN Raised(eng, "ZeroDivisionError")
    ELSE IF AgingDriverRaises(metrics, 60) THEN Raised(eng, "ValidationError")
    ELSE
      LET break_probability == ComputeBreakProbability(metrics)
          risk_assessment ==
              [risk_id |-> eng.next_id,
               risk_type |-> "bundle_break",
               bundle_id |-> IF metrics.bundle_id # NoneStr
                             THEN metrics.bundle_id ELSE "unknown",
               member_id |-> NoneStr,
               refill_id |-> NoneStr,
               probability |-> break_probability,
               severity |-> DetermineRiskSeverity(break_probability,
                                                  DefaultThresholds),
               primary_drivers |-> IdentifyBundleBreakDrivers(metrics).primary,
               secondary_drivers |->
                   IdentifyBundleBreakDrivers(metrics).secondary,
               bundle_size |-> metrics.bundle_refill_count,
               bundle_health_score |-> metrics.bundle_health_score,
               timing_alignment_score |-> metrics.timing_alignment_score]
          cached ==
              [eng EXCEPT
                 !.cache = RiskPut(@, eng.next_id, risk_assessment),
                 !.bundle_index =
                     IF risk_assessment.bundle_id # "unknown"
                     THEN IndexAppend(@, risk_assessment.bundle_id, eng.next_id)
                     ELSE @,
                 !.next_id = @ + 1]
      IN IF AuditCall(logger, "log_risk_assessment") # "ok"
         THEN Raised(cached, AuditCall(logger, "log_risk_assessment"))
         ELSE [eng |-> [cached EXCEPT !.records = Append(@, eng.next_id)],
               outcome |-> "returned", exc |-> NoneStr,
               value |-> risk_assessment]

\* assess_abandonment_risk(metrics): building the assessment reads
\* metrics.refill_events in _extract_compliance_history, which BundleMetrics
\* does not declare, so the call raises before anything is cached
AssessAbandonmentRisk(eng, logger, metrics) ==
    IF StageAgingRaises(metrics) THEN Raised(eng, "ZeroDivisionError")
    ELSE IF \/ (metrics.urgency_score > 70 /\ metrics.days_supply_remaining = None)
            \/ AgingDriverRaises(metrics, 50)
         THEN Raised(eng, "ValidationError")
    ELSE Raised(eng, "AttributeError")

\* the bundle identifiers of metrics_list in order of first appearance
\* (the keys of bundle_groups)
RECURSIVE BundleGroupKeys(_)
BundleGroupKeys(metrics_list) ==
    IF metrics_list = << >> THEN << >>
    ELSE LET front == BundleGroupKeys(SubSeq(metrics_list, 1, Len(metrics_list) - 1))
             bundle_id == metrics_list[Len(metrics_list)].bundle_id
         IN IF bundle_id = NoneStr \/ \E i \in 1..Len(front) : front[i] = bundle_id
            THEN front
            ELSE Append(front, bundle_id)

InBundle(bundle_id, metrics) == metrics.bundle_id = bundle_id

\* bundle_groups[bundle_id]
BundleGroup(metrics_list, bundle_id) ==
    SelectSeq(metrics_list, LAMBDA metrics : InBundle(bundle_id, metrics))

\* a run of assess_abandonment_risk calls that appends each assessment to
\* risk_assessments and stops at the first call that raises
RECURSIVE AssessAbandonmentEach(_, _, _, _)
AssessAbandonmentEach(eng, logger, metrics_list, risks) ==
    IF metrics_list = << >>
    THEN [eng |-> eng, outcome |-> "returned", exc |-> NoneStr, risks |-> risks]
    ELSE LET r == AssessAbandonmentRisk(eng, logger, Head(metrics_list))
         IN IF r.outcome = "raised"
            THEN [eng |-> r.eng, outcome |-> "raised", exc |-> r.exc,
                  risks |-> risks]
            ELSE AssessAbandonmentEach(r.eng, logger, Tail(metrics_list),
                                       Append(risks, r.value))

\* assess_batch_risks, second loop: the groups with more than one metric
RECURSIVE AssessBundleGroups(_, _, _, _, _)
AssessBundleGroups(eng, logger, metrics_list, keys, risks) ==
    IF keys = << >>
    THEN [eng |-> eng, outcome |-> "returned", exc |-> NoneStr, risks |-> risks]
    ELSE LET bundle_metrics == BundleGroup(metrics_list, Head(keys))
         IN IF Len(bundle_metrics) > 1
            THEN LET b == AssessBundleBreakRisk(eng, logger, bundle_metrics[1])
                 IN IF b.outcome = "raised"
                    THEN [eng |-> b.eng, outcome |-> "raised", exc |-> b.exc,
                          risks |-> risks]
                    ELSE LET a == AssessAbandonmentEach(
                                      b.eng, logger, bundle_metrics,
                                      Append(risks, b.value))
                         IN IF a.outcome = "raised" THEN a
                            ELSE AssessBundleGroups(a.eng, logger, metrics_list,
                                                    Tail(keys), a.risks)
            ELSE AssessBundleGroups(eng, logger, metrics_list, Tail(keys), risks)

HasNoBundle(metrics) == metrics.bundle_id = NoneStr

\* a batch that goes on to the bundle groups after a failed assessment
AssessBatchRisksIsolated(eng, logger, metrics_list) ==
    LET single == AssessAbandonmentEach(
                      eng, logger, SelectSeq(metrics_list, HasNoBundle), << >>)
    IN AssessBundleGroups(single.eng, logger, metrics_list,
                          BundleGroupKeys(metrics_list), single.risks)

\* assess_batch_risks(metrics_list)
AssessBatchRisks(eng, logger, metrics_list) ==
    LET single == AssessAbandonmentEach(
                      eng, logger, SelectSeq(metrics_list, HasNoBundle), << >>)
    IN IF single.outcome = "raised" THEN single
       ELSE AssessBundleGroups(single.eng, logger, metrics_list,
                               BundleGroupKeys(metrics_list), single.risks)

NoRiskResult ==
    [op |-> "none", outcome |-> "none", exc |-> NoneStr, value |-> << >>,
     input |-> << >>]

SetRiskEngine(eng) ==
    /\ risk_cache' = eng.cache
    /\ bundle_risk_index' = eng.bundle_index
    /\ member_risk_index' = eng.member_index
    /\ version_records' = eng.records
    /\ next_risk_id' = eng.next_id

AssessBundleBreak(metrics) ==
    LET r == AssessBundleBreakRisk(RiskEngine, audit_logger, metrics)
    IN /\ SetRiskEngine(r.eng)
       /\ risk_result' = [op |-> "assess_bundle_break", outcome |-> r.outcome,
                          exc |-> r.exc,
                          value |-> IF r.outcome = "returned"
                                    THEN <<r.value>> ELSE << >>,
                          input |-> <<metrics>>]

AssessAbandonment(metrics) ==
    LET r == AssessAbandonmentRisk(RiskEngine, audit_logger, metrics)
    IN /\ SetRiskEngine(r.eng)
       /\ risk_result' = [op |-> "assess_abandonment", outcome |-> r.outcome,
                          exc |-> r.exc,
                          value |-> IF r.outcome = "returned"
                                    THEN <<r.value>> ELSE << >>,
                          input |-> <<metrics>>]

AssessBatch(metrics_list) ==
    LET r == AssessBatchRisks(RiskEngine, audit_logger, metrics_list)
    IN /\ SetRiskEngine(r.eng)
       /\ risk_result' = [op |-> "assess_batch", outcome |-> r.outcome,
                          exc |-> r.exc,
                          value |-> IF r.outcome = "returned"
                                    THEN r.risks ELSE << >>,
                          input |-> metrics_list]

\* list(self._risk_cache.values()): the assessments in the order cached
RECURSIVE CacheValues(_, _)
CacheValues(cache, from_id) ==
    IF \A i \in DOMAIN cache : i < from_id THEN << >>
    ELSE IF from_id \in DOMAIN cache
    THEN <<cache[from_id]>> \o CacheValues(cache, from_id + 1)
    ELSE CacheValues(cache, from_id + 1)

\* the test of the severity filter on one assessment, line 804:
\* r.break_severity == severity or r.abandonment_severity == severity,
\* where each class declares only its own severity field
SeverityTest(r, severity) ==
    IF r.risk_type = "bundle_break"
    THEN (IF r.severity = severity THEN "keep" ELSE "AttributeError")
    ELSE "AttributeError"

\* _apply_risk_filters for a query that sets at most the severity
ApplyRiskFilters(risks, severity) ==
    IF severity = NoneStr
    THEN [outcome |-> "returned", exc |-> NoneStr, risks |-> risks]
    ELSE IF \E i \in 1..Len(risks) : SeverityTest(risks[i], severity) # "keep"
    THEN [outcome |-> "raised", exc |-> "AttributeError", risks |-> << >>]
    ELSE [outcome |-> "returned", exc |-> NoneStr, risks |-> risks]

\* _sort_risk_assessments by assessment_timestamp, descending: the
\* timestamps grow with the identifiers
RECURSIVE SortRiskAssessments(_)
SortRiskAssessments(risks) ==
    IF risks = << >> THEN << >>
    ELSE Append(SortRiskAssessments(Tail(risks)), Head(risks))

\* the test of high_risk_count on one assessment, lines 850-851
HighRiskTest(r) ==
    IF r.risk_type = "bundle_break"
    THEN (IF r.severity \in {"high", "critical"}
          THEN "counted" ELSE "AttributeError")
    ELSE "AttributeError"

OfRiskType(risks, risk_type) ==
    SelectSeq(risks, LAMBDA r : r.risk_type = risk_type)

OfSeverity(risks, severity) ==
    SelectSeq(risks, LAMBDA r : r.severity = severity)

NoSummary == [total_assessments |-> 0]

\* _generate_risk_summary on a non-empty list
GenerateRiskSummary(risks) ==
    IF \E i \in 1..Len(risks) : HighRiskTest(risks[i]) # "counted"
    THEN [outcome |-> "raised", exc |-> "AttributeError", summary |-> NoSummary]
    ELSE [outcome |-> "returned", exc |-> NoneStr,
          summary |->
            [total_assessments |-> Len(risks),
             risk_distribution |->
                 [bundle_break |-> Len(OfRiskType(risks, "bundle_break")),
                  refill_abandonment |->
                      Len(OfRiskType(risks, "refill_abandonment"))],
             severity_distribution |->
                 [v \in {risks[i].severity : i \in 1..Len(risks)} |->
                     Len(OfSeverity(risks, v))],
             high_risk_count |-> Len(risks)]]

NoRiskList == [total_count |-> 0]

\* query_risk_assessments(RiskQuery(severity=severity)): limit 100,
\* offset 0, sorted by assessment_timestamp, descending
QueryRiskAssessments(cache, severity) ==
    LET filtered == ApplyRiskFilters(CacheValues(cache, 1), severity)
        sorted_risks == SortRiskAssessments(filtered.risks)
        generated == GenerateRiskSummary(sorted_risks)
    IN IF filtered.outcome = "raised"
       THEN [outcome |-> "raised", exc |-> filtered.exc, value |-> NoRiskList]
       ELSE IF sorted_risks # << >> /\ generated.outcome = "raised"
       THEN [outcome |-> "raised", exc |-> generated.exc, value |-> NoRiskList]
       ELSE [outcome |-> "returned", exc |-> NoneStr,
             value |-> [risks |-> sorted_risks,
                        total_count |-> Len(sorted_risks),
                        has_more |-> FALSE,
                        summary |-> IF sorted_risks # << >>
                                    THEN generated.summary ELSE NoSummary]]

Query(severity) ==
    LET r == QueryRiskAssessments(risk_cache, severity)
    IN /\ risk_result' = [op |-> "query", outcome |-> r.outcome,
                          exc |-> r.exc, value |-> <<r.value>>,
                          input |-> <<severity>>]
       /\ UNCHANGED <<risk_cache, bundle_risk_index, member_risk_index,
                      version_records, next_risk_id>>

\* _compute_abandonment_probability and the severity assess_abandonment_risk
\* derives from it (lines 139-142), called on their own
AbandonmentProbability(metrics) ==
    /\ risk_result' =
         IF StageAgingRaises(metrics)
         THEN [op |-> "abandonment_probability", outcome |-> "raised",
               exc |-> "ZeroDivisionError", value |-> << >>,
               input |-> <<metrics>>]
         ELSE [op |-> "abandonment_probability", outcome |-> "returned",
               exc |-> NoneStr,
               value |->
                 <<[probability |-> ComputeAbandonmentProbability(metrics),
                    severity |->
                      DetermineRiskSeverity(
                          ComputeAbandonmentProbability(metrics),
                          DefaultThresholds)]>>,
               input |-> <<metrics>>]
    /\ UNCHANGED <<risk_cache, bundle_risk_index, member_risk_index,
                   version_records, next_risk_id>>

\* _determine_risk_severity called on its own
DetermineSeverity(probability, thresholds) ==
    /\ risk_result' =
         [op |-> "determine_severity", outcome |-> "returned", exc |-> NoneStr,
          value |-> <<DetermineRiskSeverity(probability, thresholds)>>,
          input |-> <<probability, thresholds.low, thresholds.medium,
                      thresholds.high>>]
    /\ UNCHANGED <<risk_cache, bundle_risk_index, member_risk_index,
                   version_records, next_risk_id>>

-----------------------------------------------------------------------------
(* Metrics engine: src/src/metrics/bundle_metrics_engine.py *)

Abs(x) == IF x < 0 THEN 0 - x ELSE x

\* self._stage_age_thresholds.get(current_stage, 3)
StageAgeThreshold(current_stage) ==
    CASE current_stage = "initiated" -> 3
      [] current_stage = "eligible" -> 7
      [] current_stage = "pa_pending" -> 5
      [] current_stage = "pa_approved" -> 3
      [] current_stage = "bundled" -> 2
      [] current_stage = "oos_detected" -> 1
      [] current_stage \in {"shipped", "completed"} -> 0
      [] OTHER -> 3

\* self._risk_score_thresholds
RiskScoreThresholds ==
    [low |-> 3000, medium |-> 6000, high |-> 8000, critical |-> 9000]

\* a score validator that accepts every value
ValidScoreUnchecked(v) == TRUE

\* a score validator of models/metrics.py: 0 <= v <= 1
ValidScore(v) == 0 <= v /\ v <= 10000

\* _get_bundle_context; bundle_snapshots = None stands for the empty list
GetBundleContext(snapshot, bundle_snapshots) ==
    IF snapshot.bundle_id = NoneStr
    THEN [bundle_size |-> 1, bundle_member_count |-> 1,
          bundle_refill_count |-> 1, snapshots |-> <<snapshot>>]
    ELSE [bundle_size |-> Len(bundle_snapshots),
          bundle_member_count |->
              Cardinality({bundle_snapshots[i].member_id :
                              i \in 1..Len(bundle_snapshots)}),
          bundle_refill_count |-> Len(bundle_snapshots),
          snapshots |-> bundle_snapshots]

\* _compute_stage_age_percentile: min(1.0, days_in_stage / (threshold * 2))
ComputeStageAgePercentile(days_in_stage, stage) ==
    Min2(10000, (days_in_stage * 10000) \div (StageAgeThreshold(stage) * 2))

\* the exception _compute_age_in_stage_metrics ends with, NoneStr if none:
\* the comparison of line 226 needs a number, the percentile divides by
\* twice the threshold, and AgeInStageMetrics rejects negative days
AgeInStageRaises(snapshot) ==
    IF snapshot.days_in_current_stage = None THEN "TypeError"
    ELSE IF StageAgeThreshold(snapshot.current_stage) = 0
         THEN "ZeroDivisionError"
    ELSE IF snapshot.days_in_current_stage < 0 THEN "ValidationError"
    ELSE NoneStr

\* _compute_age_in_stage_metrics (the stage history and the transition
\* days, which nothing reads, are not carried)
ComputeAgeInStageMetrics(snapshot) ==
    [current_stage |-> snapshot.current_stage,
     days_in_current_stage |-> snapshot.days_in_current_stage,
     is_aging_in_stage |->
         snapshot.days_in_current_stage
             > StageAgeThreshold(snapshot.current_stage),
     stage_age_percentile |->
         ComputeStageAgePercentile(snapshot.days_in_current_stage,
                                   snapshot.current_stage)]

HasDueDate(s) == s.refill_due_date # None

\* [s.refill_due_date for s in bundle_snapshots if s.refill_due_date]
RefillDueDates(bundle_snapshots) ==
    LET due == SelectSeq(bundle_snapshots, HasDueDate)
    IN [i \in 1..Len(due) |-> due[i].refill_due_date]

\* timing_gaps: the distance in days of each due date to the next
TimingGaps(refill_due_dates) ==
    [i \in 1..(Len(refill_due_dates) - 1) |->
        Abs(refill_due_dates[i + 1] - refill_due_dates[i])]

RECURSIVE SumSeq(_)
SumSeq(q) == IF q = << >> THEN 0 ELSE Head(q) + SumSeq(Tail(q))

RECURSIVE MaxSeq(_)
MaxSeq(q) == IF q = << >> THEN 0 ELSE Max2(Head(q), MaxSeq(Tail(q)))

Squares(q) == [i \in 1..Len(q) |-> q[i] * q[i]]

\* statistics.variance(timing_gaps) as the fraction num / den (the sample
\* variance), 0 for fewer than two gaps
TimingVariance(timing_gaps) ==
    LET n == Len(timing_gaps)
    IN IF n > 1
       THEN [num |-> n * SumSeq(Squares(timing_gaps))
                       - SumSeq(timing_gaps) * SumSeq(timing_gaps),
             den |-> n * (n - 1)]
       ELSE [num |-> 0, den |-> 1]

\* _compute_timing_overlap_metrics
ComputeTimingOverlapMetrics(snapshot, bundle_context) ==
    LET refill_due_dates == RefillDueDates(bundle_context.snapshots)
        timing_gaps == TimingGaps(refill_due_dates)
        timing_variance == TimingVariance(timing_gaps)
        max_gap == MaxSeq(timing_gaps)
        alignment_efficiency == Max2(0, 10000 - (max_gap * 10000) \div 30)
        fragmentation_risk == Min2(10000, (max_gap * 10000) \div 14)
    IN IF bundle_context.bundle_size <= 1
       THEN [bundle_size |-> bundle_context.bundle_size,
             refill_overlap_score |-> 10000, max_timing_gap_days |-> 0,
             is_well_aligned |-> TRUE, alignment_efficiency |-> 10000,
             fragmentation_risk |-> 0, shipment_split_probability |-> 0]
       ELSE IF Len(refill_due_dates) < 2
       THEN [bundle_size |-> bundle_context.bundle_size,
             refill_overlap_score |-> 5000, max_timing_gap_days |-> 30,
             is_well_aligned |-> FALSE, alignment_efficiency |-> 5000,
             fragmentation_risk |-> 5000, shipment_split_probability |-> 5000]
       ELSE [bundle_size |-> bundle_context.bundle_size,
             refill_overlap_score |->
                 Max2(0, 10000 - (timing_variance.num * 10000)
                                    \div (timing_variance.den * 900)),
             max_timing_gap_days |-> max_gap,
             is_well_aligned |-> alignment_efficiency > 8000,
             alignment_efficiency |-> alignment_efficiency,
             fragmentation_risk |-> fragmentation_risk,
             shipment_split_probability |-> (fragmentation_risk * 8) \div 10]

\* x or 0
OrZero(x) == IF Truthy(x) THEN x ELSE 0

\* a risk curve without the branch for 60 to 90 days
AbandonmentRiskOneBranch(days_since_last_fill) ==
    IF days_since_last_fill > 90
    THEN Min2(10000, ((days_since_last_fill - 90) * 10000) \div 90)
    ELSE 0

\* the abandonment_risk of _compute_refill_gap_metrics, lines 324-328
AbandonmentRisk(days_since_last_fill) ==
    IF days_since_last_fill > 90
    THEN Min2(10000, ((days_since_last_fill - 90) * 10000) \div 90)
    ELSE IF days_since_last_fill > 60
    THEN Min2(5000, ((days_since_last_fill - 60) * 10000) \div 60)
    ELSE 0

\* the urgency_score of _compute_refill_gap_metrics, lines 331-339
UrgencyScore(days_until_due) ==
    IF days_until_due < 0 THEN 10000
    ELSE IF days_until_due < 7 THEN 8000
    ELSE IF days_until_due < 14 THEN 5000
    ELSE IF days_until_due < 30 THEN 2000
    ELSE 0

\* _compute_refill_gap_metrics
ComputeRefillGapMetrics(snapshot) ==
    LET days_since_last_fill == OrZero(snapshot.days_since_last_fill)
        days_until_due == OrZero(snapshot.days_until_due)
        known == Truthy(snapshot.days_supply) /\ snapshot.last_fill_date # None
        days_supply_remaining ==
            Max2(0, snapshot.days_supply - (Now - snapshot.last_fill_date))
    IN [days_since_last_fill |-> days_since_last_fill,
        days_until_next_due |-> days_until_due,
        is_optimal_gap |-> Abs(days_since_last_fill - 30) <= 7,
        gap_efficiency_score |->
            Max2(0, 10000 - (Abs(days_since_last_fill - 30) * 10000) \div 30),
        abandonment_risk |-> AbandonmentRisk(days_since_last_fill),
        urgency_score |-> UrgencyScore(days_until_due),
        days_supply_remaining |->
            IF known THEN days_supply_remaining ELSE None,
        supply_buffer_days |->
            IF known THEN days_supply_remaining - days_until_due ELSE None]

\* _compute_bundle_alignment_metrics; the snapshot's score is in percent
ComputeBundleAlignmentMetrics(snapshot, bundle_context) ==
    LET bundle_alignment_score ==
            IF Truthy(snapshot.bundle_alignment_score)
            THEN snapshot.bundle_alignment_score * 100 ELSE 5000
        bundle_efficiency == (bundle_alignment_score * 8) \div 10
        cost_savings == Min2(10000, bundle_context.bundle_refill_count * 1000)
    IN [bundle_id |-> snapshot.bundle_id,
        bundle_member_count |-> bundle_context.bundle_member_count,
        bundle_refill_count |-> bundle_context.bundle_refill_count,
        bundle_alignment_score |-> bundle_alignment_score,
        timing_alignment_score |-> bundle_alignment_score,
        bundle_efficiency_score |-> bundle_efficiency,
        cost_savings_potential |-> cost_savings,
        split_risk_score |-> 10000 - bundle_alignment_score,
        outreach_reduction_score |-> (bundle_efficiency * 7) \div 10,
        bundle_health_score |->
            (bundle_alignment_score + bundle_efficiency + cost_savings) \div 3]

\* the validator of BundleAlignmentMetrics
AlignmentValid(alignment_metrics) ==
    /\ ValidScore(alignment_metrics.bundle_alignment_score)
    /\ ValidScore(alignment_metrics.timing_alignment_score)
    /\ ValidScore(alignment_metrics.bundle_efficiency_score)
    /\ ValidScore(alignment_metrics.cost_savings_potential)
    /\ ValidScore(alignment_metrics.split_risk_score)
    /\ ValidScore(alignment_metrics.outreach_reduction_score)
    /\ ValidScore(alignment_metrics.bundle_health_score)

\* the validator of TimingOverlapMetrics
TimingValid(timing_metrics) ==
    /\ ValidScore(timing_metrics.refill_overlap_score)
    /\ ValidScore(timing_metrics.alignment_efficiency)
    /\ ValidScore(timing_metrics.fragmentation_risk)
    /\ ValidScore(timing_metrics.shipment_split_probability)

\* the validator of RefillGapMetrics
GapValid(gap_metrics) ==
    /\ ValidScore(gap_metrics.gap_efficiency_score)
    /\ ValidScore(gap_metrics.abandonment_risk)
    /\ ValidScore(gap_metrics.urgency_score)

\* a cascade without the medium bucket
MetricSeverityNoMedium(overall_risk) ==
    IF overall_risk >= RiskScoreThresholds.critical THEN "critical"
    ELSE IF overall_risk >= RiskScoreThresholds.medium THEN "high"
    ELSE "low"

\* the severity cascade of _compute_overall_risk, lines 445-452
MetricSeverity(overall_risk) ==
    IF overall_risk >= RiskScoreThresholds.critical THEN "critical"
    ELSE IF overall_risk >= RiskScoreThresholds.high THEN "high"
    ELSE IF overall_risk >= RiskScoreThresholds.medium THEN "medium"
    ELSE "low"

\* the overall_risk of _compute_overall_risk: the weighted sum, at most 1
OverallRisk(age_metrics, timing_metrics, gap_metrics, alignment_metrics) ==
    LET age_risk ==
            IF age_metrics.is_aging_in_stage
            THEN Min2(10000, (age_metrics.days_in_current_stage * 10000)
                                 \div 14)
            ELSE 0
    IN Min2(10000, (age_risk * 3
                    + timing_metrics.fragmentation_risk * 4
                    + gap_metrics.abandonment_risk * 3
                    + alignment_metrics.split_risk_score * 2) \div 10)

MetricsEngine ==
    [cache |-> metrics_cache, member_index |-> member_metrics_index,
     bundle_index |-> bundle_metrics_index]

NoMetrics == [snapshot_id |-> 0]

MetricsRaised(eng, exc) ==
    [eng |-> eng, outcome |-> "raised", exc |-> exc, value |-> NoMetrics]

\* compute_metrics(snapshot, bundle_snapshots): the record is cached and
\* indexed before the audit call, which decides how the call ends
ComputeMetrics(eng, logger, snapshot, bundle_snapshots) ==
    LET bundle_context == GetBundleContext(snapshot, bundle_snapshots)
        age_metrics == ComputeAgeInStageMetrics(snapshot)
        timing_metrics == ComputeTimingOverlapMetrics(snapshot, bundle_context)
        gap_metrics == ComputeRefillGapMetrics(snapshot)
        alignment_metrics ==
            ComputeBundleAlignmentMetrics(snapshot, bundle_context)
        risk_score == OverallRisk(age_metrics, timing_metrics, gap_metrics,
                                  alignment_metrics)
        risk_severity == MetricSeverity(risk_score)
        metrics ==
            [snapshot_id |-> snapshot.snapshot_id,
             member_id |-> snapshot.member_id,
             refill_id |-> snapshot.refill_id,
             age_in_stage |-> age_metrics,
             timing_overlap |-> timing_metrics,
             refill_gap |-> gap_metrics,
             bundle_alignment |-> alignment_metrics,
             overall_risk_score |-> risk_score,
             risk_severity |-> risk_severity,
             requires_attention |-> risk_severity \in {"high", "critical"}]
        cached ==
            [eng EXCEPT
               !.cache = RiskPut(@, snapshot.snapshot_id, metrics),
               !.member_index =
                   IndexAppend(@, snapshot.member_id, snapshot.snapshot_id),
               !.bundle_index =
                   IF snapshot.bundle_id # NoneStr
                   THEN IndexAppend(@, snapshot.bundle_id, snapshot.snapshot_id)
                   ELSE @]
        logged == AuditCall(logger, "log_metrics_computed")
    IN IF AgeInStageRaises(snapshot) # NoneStr
       THEN MetricsRaised(eng, AgeInStageRaises(snapshot))
       ELSE IF \/ ~TimingValid(timing_metrics)
               \/ ~GapValid(gap_metrics)
               \/ ~AlignmentValid(alignment_metrics)
               \/ ~ValidScore(risk_score)
       THEN MetricsRaised(eng, "ValidationError")
       ELSE IF logged # "ok" THEN MetricsRaised(cached, logged)
       ELSE [eng |-> cached, outcome |-> "returned", exc |-> NoneStr,
             value |-> metrics]

NoMetricsResult ==
    [op |-> "none", outcome |-> "none", exc |-> NoneStr, value |-> NoMetrics,
     snapshot |-> NoSnapshot, bundle_snapshots |-> << >>]

Compute(snapshot, bundle_snapshots) ==
    LET r == ComputeMetrics(MetricsEngine, audit_logger, snapshot,
                            bundle_snapshots)
    IN /\ metrics_cache' = r.eng.cache
       /\ member_metrics_index' = r.eng.member_index
       /\ bundle_metrics_index' = r.eng.bundle_index
       /\ metrics_result' = [op |-> "compute", outcome |-> r.outcome,
                             exc |-> r.exc, value |-> r.value,
                             snapshot |-> snapshot,
                             bundle_snapshots |-> bundle_snapshots]

-----------------------------------------------------------------------------
(* Risk model configuration: src/src/models/risk.py *)

\* validate_thresholds: every value of the dictionary lies in [0, 1]
ThresholdsValid(v) == \A key \in DOMAIN v : 0 <= v[key] /\ v[key] <= 10000

\* a weight validator without the allowance for rounding errors
WeightsValidExact(v) == SumSeq(v) = 10000

\* validate_weights on the values of driver_weights:
\* abs(total_weight - 1.0) > 0.01 raises
WeightsValid(v) == ~(Abs(SumSeq(v) - 10000) > 100)

\* RiskModelConfig(break_risk_thresholds=..., abandonment_risk_thresholds=...,
\* driver_weights=...): pydantic turns a validator's ValueError into a
\* ValidationError of the constructor
RiskModelConfig(break_risk_thresholds, abandonment_risk_thresholds, driver_weights) ==
    IF /\ ThresholdsValid(break_risk_thresholds)
       /\ ThresholdsValid(abandonment_risk_thresholds)
       /\ WeightsValid(driver_weights)
    THEN [outcome |-> "returned", exc |-> NoneStr,
          value |-> <<[break_risk_thresholds |-> break_risk_thresholds,
                       abandonment_risk_thresholds |->
                           abandonment_risk_thresholds,
                       driver_weights |-> driver_weights]>>]
    ELSE [outcome |-> "raised", exc |-> "ValidationError", value |-> << >>]

\* the constructor called on its own
ConstructConfig(break_risk_thresholds, abandonment_risk_thresholds, driver_weights) ==
    LET r == RiskModelConfig(break_risk_thresholds,
                             abandonment_risk_thresholds, driver_weights)
    IN /\ risk_result' =
            [op |-> "config", outcome |-> r.outcome, exc |-> r.exc,
             value |-> r.value,
             input |-> <<break_risk_thresholds, abandonment_risk_thresholds,
                         driver_weights>>]
       /\ UNCHANGED <<risk_cache, bundle_risk_index, member_risk_index,
                      version_records, next_risk_id>>

-----------------------------------------------------------------------------
(* Inputs *)

\* all sequences over S of length 0..n
RECURSIVE SeqsUpTo(_, _)
SeqsUpTo(S, n) ==
    IF n = 0 THEN {<< >>}
    ELSE LET shorter == SeqsUpTo(S, n - 1)
         IN shorter \cup {Append(q, x) : q \in shorter, x \in S}

DefaultId(event_type) ==
    CASE event_type = "pa_submitted" -> "evt_pa_sub"
      [] event_type \in PATypes \ {"pa_submitted"} -> "evt_pa_res"
      [] event_type \in OOSTypes -> "evt_oos"
      [] event_type \in BundleTypes -> "evt_bun"
      [] OTHER -> "evt_ref"

\* alignment score of the pool's first refill_eligible event
DefaultScore(event_type) == IF event_type = "refill_eligible" THEN 50 ELSE None

\* events of one member and refill: every event type once, two more
\* refill_eligible events with alignment scores (one at the same time as
\* the first, one later), and a PA event whose identifier lacks "pa_"
FoldPool ==
    {Ev(DefaultId(t), "member_1", "refill_1", "bundle_1", t, 1,
        DefaultScore(t), NoneStr) : t \in EventType}
    \cup {Ev("evt_ref", "member_1", "refill_1", "bundle_1", "refill_eligible",
              1, 90, NoneStr),
          Ev("evt_ref", "member_1", "refill_1", "bundle_1", "refill_eligible",
              MaxTime, 30, NoneStr),
          Ev("evt_0007", "member_1", "refill_1", "bundle_1", "pa_approved",
              1, None, "renewal")}

FoldInputs == SeqsUpTo(FoldPool, MaxEvents)

\* events of several members, refills and bundles for the engine's calls
EnginePool ==
    {Ev("evt_ref", "member_1", "refill_1", "bundle_1", "refill_initiated", 1, 90, NoneStr),
     Ev("evt_ship", "member_1", "refill_1", "bundle_1", "refill_shipped", MaxTime, None, NoneStr),
     Ev("evt_pa_sub", "member_1", "refill_2", "bundle_1", "pa_submitted", 1, None, "new"),
     Ev("evt_elig", "member_2", "refill_2", NoneStr, "refill_eligible", 1, None, NoneStr)}

EngineInputs == SeqsUpTo(EnginePool, MaxInput)

SnapshotIds == 1..(MaxSnapshots + 1)

\* a BundleMetrics record: the fields the risk scorer reads
Metrics(member, refill, bundle, stage, days, percentile, timing, health, frag) ==
    [member_id |-> member, refill_id |-> refill, bundle_id |-> bundle,
     current_stage |-> stage, days_in_current_stage |-> days,
     stage_age_percentile |-> percentile,
     timing_alignment_score |-> timing, bundle_health_score |-> health,
     fragmentation_risk |-> frag,
     bundle_refill_count |-> IF bundle = NoneStr THEN 1 ELSE 2,
     abandonment_risk |-> 0, urgency_score |-> 30,
     gap_efficiency_score |-> 100,
     days_supply_remaining |-> None]

MetricsPool ==
    {Metrics("member_1", "refill_1", "bundle_1", "eligible", 2, 50, 90, 90, 10),
     Metrics("member_1", "refill_2", "bundle_1", "pa_pending", 9, None, 20, 30, 80),
     Metrics("member_2", "refill_3", "bundle_2", "oos_detected", 1, 50, 0, 30, 100),
     Metrics("member_2", "refill_4", NoneStr, "eligible", 3, 50, 90, 90, 10),
     Metrics("member_1", "refill_5", "bundle_1", "shipped", 1, 50, 90, 90, 10),
     Metrics("member_2", "refill_6", "bundle_2", "bundled", 2, 50, 40, 40, 60)}

\* the metrics of the single assessments: those of the batches and one
\* record that crosses every driver threshold
SingleMetricsPool ==
    MetricsPool
    \cup {[Metrics("member_1", "refill_7", "bundle_2", "initiated", 6, 100,
                   40, 20, 90)
             EXCEPT !.abandonment_risk = 50, !.urgency_score = 80,
                    !.days_supply_remaining = 5]}

MetricsLists == SeqsUpTo(MetricsPool, MaxBatch)

\* metrics for the abandonment probability: every stage class, ages from
\* none to beyond the maximum, with and without a bundle, and each score
\* at both ends of [0, 1]
ProbabilityMetrics ==
    {[Metrics("member_1", "refill_1", bundle, stage, days, 50, 90, 90, frag)
        EXCEPT !.abandonment_risk = gap, !.urgency_score = urgency,
               !.gap_efficiency_score = efficiency] :
       bundle \in {"bundle_1", NoneStr},
       stage \in {"initiated", "eligible", "oos_detected", "shipped"},
       days \in {0, 7, 20}, frag \in {0, 50, 100},
       gap \in {0, 100}, urgency \in {0, 100}, efficiency \in {0, 100}}

Probabilities == {0, 1500, 2999, 3000, 4500, 6000, 7000, 8000, 8500, 10000}

ThresholdValues == {0, 3000, 6000, 8000, 10000}

ThresholdSets == [low : ThresholdValues, medium : ThresholdValues,
                  high : ThresholdValues]

\* the day that lies the given number of days before now
Ago(days) == Now - days

\* a refill event that carries fill data
EvFill(event, due, last, supply) ==
    [event EXCEPT !.refill_due_date = due, !.last_fill_date = last,
                  !.days_supply = supply]

\* the event lists whose snapshots the metrics engine is run on: every
\* stage with its milestone, the stage initiated without one (a lone PA
\* resolution, a lone OOS resolution), fills of 25 to 300 days ago, due
\* dates from 5 days overdue to 40 days ahead, alignment scores of 0, 1,
\* 20, 90 and 150 percent
MetricsEventLists ==
    <<<<EvFill(Ev("evt_ref", "member_1", "refill_1", "bundle_1",
                  "refill_initiated", Ago(5), 90, NoneStr),
               None, Ago(60), 30)>>,
      <<EvFill(Ev("evt_ref", "member_1", "refill_1", "bundle_1",
                  "refill_initiated", Ago(10), None, NoneStr),
               None, Ago(25), 30)>>,
      <<EvFill(Ev("evt_ref", "member_1", "refill_1", "bundle_1",
                  "refill_eligible", Ago(8), None, NoneStr),
               Ago(-5), Ago(70), 90)>>,
      <<EvFill(Ev("evt_ref", "member_1", "refill_2", "bundle_1",
                  "refill_eligible", Ago(5), 20, NoneStr),
               Ago(5), Ago(200), 30)>>,
      <<Ev("evt_pa_sub", "member_1", "refill_1", "bundle_1", "pa_submitted",
           Ago(6), None, "new")>>,
      <<Ev("evt_pa_sub", "member_1", "refill_1", "bundle_1", "pa_submitted",
           Ago(6), None, "new"),
        Ev("evt_pa_res", "member_1", "refill_1", "bundle_1", "pa_approved",
           Ago(5), None, "new")>>,
      <<Ev("evt_pa_res", "member_1", "refill_1", "bundle_1", "pa_approved",
           Ago(5), None, "new")>>,
      <<Ev("evt_bun", "member_1", "refill_1", "bundle_1", "bundle_formed",
           Ago(5), None, NoneStr)>>,
      <<Ev("evt_oos", "member_1", "refill_1", "bundle_1", "oos_detected",
           Ago(5), None, NoneStr)>>,
      <<Ev("evt_oos", "member_1", "refill_1", "bundle_1", "oos_resolved",
           Ago(5), None, NoneStr)>>,
      <<Ev("evt_ref", "member_1", "refill_1", "bundle_1", "refill_shipped",
           Ago(5), None, NoneStr)>>,
      <<Ev("evt_ref", "member_1", "refill_1", "bundle_1", "refill_completed",
           Ago(5), None, NoneStr)>>,
      <<Ev("evt_ref", "member_1", "refill_1", "bundle_1", "refill_eligible",
           Ago(5), 150, NoneStr)>>,
      <<EvFill(Ev("evt_ref", "member_1", "refill_2", "bundle_1",
                  "refill_eligible", Ago(5), 0, NoneStr),
               Ago(-10), Ago(95), None)>>,
      <<EvFill(Ev("evt_ref", "member_2", "refill_2", NoneStr,
                  "refill_eligible", Ago(5), None, NoneStr),
               Ago(-20), Ago(90), 30)>>,
      <<EvFill(Ev("evt_ref", "member_2", "refill_1", "bundle_1",
                  "refill_initiated", Ago(5), None, NoneStr),
               Ago(-40), Ago(61), 30)>>,
      <<EvFill(Ev("evt_ref", "member_1", "refill_1", "bundle_1",
                  "refill_eligible", Ago(20), 1, NoneStr),
               Ago(-5), Ago(300), 30)>>>>

\* the snapshot aggregate builds from the i-th list, under the identifier i
MetricsSnapshot(i) == BuildSnapshot(i, MetricsEventLists[i])

MetricsSnapshots == {MetricsSnapshot(i) : i \in DOMAIN MetricsEventLists}

\* the snapshots offered as siblings of a bundle: one without a due date
\* and four with due dates 5 days overdue and 5, 10 and 40 days ahead
SiblingIndices == {1, 3, 4, 14, 16}

SiblingPool == {MetricsSnapshot(i) : i \in SiblingIndices}

SiblingLists == SeqsUpTo(SiblingPool, MaxSiblings)

\* threshold values at and just outside the ends of [0, 1]
ConfigThresholdValues == {-1, 0, 3000, 10000, 10001}

ConfigThresholdSets ==
    [low : ConfigThresholdValues, medium : ConfigThresholdValues,
     high : {8000}]

\* values of driver_weights: the defaults, those of the repository's test,
\* sums inside and just outside 1.0 - 0.01 and 1.0 + 0.01, a negative
\* weight, one weight and none
ConfigWeights ==
    {<<3000, 2500, 2000, 1500, 1000>>,
     <<4000, 3000, 2000, 1000>>,
     <<3000, 2500, 2000, 1500, 950>>,
     <<3000, 2500, 2000, 1500, 899>>,
     <<3000, 2500, 2000, 1500, 1050>>,
     <<3000, 2500, 2000, 1500, 1101>>,
     <<15000, -5000>>,
     <<10000>>,
     << >>}

-----------------------------------------------------------------------------
(* Specifications *)

Init ==
    /\ audit_logger \in LoggerKinds
    /\ snapshot_cache = << >>
    /\ event_index = [m \in Members |-> << >>]
    /\ bundle_index = [b \in Bundles |-> << >>]
    /\ next_snapshot_id = 1
    /\ agg_result = NoResult
    /\ risk_cache = << >>
    /\ bundle_risk_index = << >>
    /\ member_risk_index = << >>
    /\ version_records = << >>
    /\ next_risk_id = 1
    /\ risk_result = NoRiskResult
    /\ metrics_cache = << >>
    /\ member_metrics_index = << >>
    /\ bundle_metrics_index = << >>
    /\ metrics_result = NoMetricsResult

\* one aggregation on a fresh engine
AggregateOnce ==
    /\ next_snapshot_id = 1
    /\ agg_result.op = "none"
    /\ \E events \in FoldInputs : Aggregate(events)
    /\ UNCHANGED <<riskVars, metricsVars>>

NextFold == AggregateOnce

\* the engine as SnapshotAggregationEngine() constructs it
InitFold == Init /\ audit_logger = "AuditLogger"

SpecFold == InitFold /\ [][NextFold]_vars

AggregateCall ==
    /\ \E events \in EngineInputs :
         /\ events = << >> \/ next_snapshot_id <= MaxSnapshots
         /\ Aggregate(events)
    /\ UNCHANGED <<riskVars, metricsVars>>

UpdateCall ==
    /\ \E snapshot_id \in SnapshotIds, new_event \in EnginePool :
         \/ UpdateNotFound(snapshot_id, new_event)
         \/ UpdateMismatch(snapshot_id, new_event)
         \/ UpdateMatched(snapshot_id, new_event)
    /\ UNCHANGED <<riskVars, metricsVars>>

Next == AggregateCall \/ UpdateCall

Spec == Init /\ [][Next]_vars

\* aggregate_events_to_snapshot called again on an engine that has cached
\* a snapshot
AggregateAgainCall ==
    /\ \E events \in EngineInputs :
         /\ events = << >> \/ next_snapshot_id <= MaxAggregations
         /\ Aggregate(events)
    /\ UNCHANGED <<riskVars, metricsVars>>

NextRepeat == AggregateAgainCall \/ UpdateCall

SpecRepeat == Init /\ [][NextRepeat]_vars

\* the severity mapping on its own
SeverityCall ==
    /\ risk_result.op = "none"
    /\ \E probability \in Probabilities, thresholds \in ThresholdSets :
         DetermineSeverity(probability, thresholds)
    /\ UNCHANGED <<audit_logger, aggVars, metricsVars>>

NextSeverity == SeverityCall

SpecSeverity == Init /\ [][NextSeverity]_vars

BundleBreakCall ==
    /\ next_risk_id <= MaxRisks
    /\ \E metrics \in SingleMetricsPool : AssessBundleBreak(metrics)
    /\ UNCHANGED <<audit_logger, aggVars, metricsVars>>

AbandonmentCall ==
    /\ \E metrics \in SingleMetricsPool : AssessAbandonment(metrics)
    /\ UNCHANGED <<audit_logger, aggVars, metricsVars>>

BatchCall ==
    /\ next_risk_id <= MaxRisks
    /\ \E metrics_list \in MetricsLists : AssessBatch(metrics_list)
    /\ UNCHANGED <<audit_logger, aggVars, metricsVars>>

NextRisk == BundleBreakCall \/ AbandonmentCall \/ BatchCall

SpecRisk == Init /\ [][NextRisk]_vars

\* the single assessments on their own
NextAssess == BundleBreakCall \/ AbandonmentCall

SpecAssess == Init /\ [][NextAssess]_vars

ProbabilityCall ==
    /\ risk_result.op = "none"
    /\ \E metrics \in ProbabilityMetrics : AbandonmentProbability(metrics)
    /\ UNCHANGED <<audit_logger, aggVars, metricsVars>>

NextProbability == ProbabilityCall

SpecProbability == Init /\ [][NextProbability]_vars

\* one batch on an engine that is fresh or has made one bundle-break
\* assessment
FirstBreakCall ==
    /\ risk_result.op = "none"
    /\ \E metrics \in SingleMetricsPool : AssessBundleBreak(metrics)
    /\ UNCHANGED <<audit_logger, aggVars, metricsVars>>

BatchOnceCall ==
    /\ risk_result.op # "assess_batch"
    /\ \E metrics_list \in MetricsLists : AssessBatch(metrics_list)
    /\ UNCHANGED <<audit_logger, aggVars, metricsVars>>

NextBatch == FirstBreakCall \/ BatchOnceCall

SpecBatch == Init /\ [][NextBatch]_vars

\* the values of RiskSeverity, and None for a query without the filter
QuerySeverities == {"low", "medium", "high", "critical", NoneStr}

QueryCall ==
    /\ \E severity \in QuerySeverities : Query(severity)
    /\ UNCHANGED <<audit_logger, aggVars, metricsVars>>

NextQuery == BundleBreakCall \/ AbandonmentCall \/ QueryCall

SpecQuery == Init /\ [][NextQuery]_vars

\* one compute on a fresh metrics engine
ComputeCall ==
    /\ metrics_result.op = "none"
    /\ \E snapshot \in MetricsSnapshots, bundle_snapshots \in SiblingLists :
         Compute(snapshot, bundle_snapshots)
    /\ UNCHANGED <<audit_logger, aggVars, riskVars>>

NextMetrics == ComputeCall

SpecMetrics == Init /\ [][NextMetrics]_vars

\* the sibling lists of the repeated computes: none or one sibling
RecomputeSiblingLists == {<< >>} \cup {<<s>> : s \in SiblingPool}

\* the number of identifiers an index holds, over all its keys
RECURSIVE IndexSizeOver(_, _)
IndexSizeOver(index, keys) ==
    IF keys = {} THEN 0
    ELSE LET k == CHOOSE x \in keys : TRUE
         IN Len(index[k]) + IndexSizeOver(index, keys \ {k})

IndexSize(index) == IndexSizeOver(index, DOMAIN index)

\* compute_metrics called again and again on one engine, for a snapshot
\* computed before or for another one
RecomputeCall ==
    /\ IndexSize(member_metrics_index) < MaxComputes
    /\ \E snapshot \in SiblingPool, bundle_snapshots \in RecomputeSiblingLists :
         Compute(snapshot, bundle_snapshots)
    /\ UNCHANGED <<audit_logger, aggVars, riskVars>>

NextRecompute == RecomputeCall

SpecRecompute == Init /\ [][NextRecompute]_vars

\* the configuration constructor on its own
ConfigCall ==
    /\ risk_result.op = "none"
    /\ \E break_risk_thresholds \in ConfigThresholdSets,
          abandonment_risk_thresholds \in ConfigThresholdSets,
          driver_weights \in ConfigWeights :
         ConstructConfig(break_risk_thresholds, abandonment_risk_thresholds,
                         driver_weights)
    /\ UNCHANGED <<audit_logger, aggVars, metricsVars>>

NextConfig == ConfigCall

SpecConfig == Init /\ [][NextConfig]_vars

-----------------------------------------------------------------------------
(* Properties of aggregate_events_to_snapshot (specification SpecFold) *)

\* the last call was an aggregate that built a snapshot
Built == agg_result.op = "aggregate" /\ agg_result.built.snapshot_id # 0

HasType(events, types) ==
    \E i \in 1..Len(events) : events[i].event_type \in types

ShippedCategory == {"refill_shipped", "bundle_shipped"}

\* the cascade as the specification words it: any PA resolution is approved
CascadeStage(s) ==
    IF s.completed_timestamp # None THEN "completed"
    ELSE IF s.shipped_timestamp # None THEN "shipped"
    ELSE IF s.oos_detected_timestamp # None /\ s.oos_resolved_timestamp = None
         THEN "oos_detected"
    ELSE IF s.bundled_timestamp # None THEN "bundled"
    ELSE IF s.pa_resolved_timestamp # None THEN "pa_approved"
    ELSE IF s.pa_submitted_timestamp # None THEN "pa_pending"
    ELSE IF s.eligible_timestamp # None THEN "eligible"
    ELSE "initiated"

\* C1: for every non-empty event list, aggregate sets current_stage to the
\* first match of the cascade completed, shipped, unresolved OOS, bundled,
\* PA resolved (approved), PA submitted (pending), eligible, initiated.
C1_StageCascade ==
    Built => agg_result.built.current_stage = CascadeStage(agg_result.built)

\* C2: when the events contain a refill_shipped or bundle_shipped event, the
\* stage aggregate resolves is shipped or completed, whatever else is present.
C2_ShippedNeverEarlier ==
    (Built /\ HasType(agg_result.input, ShippedCategory))
        => agg_result.built.current_stage \in {"shipped", "completed"}

\* a bundle_shipped event together with an unresolved OOS and a PA event
C2_Witness ==
    /\ Built
    /\ HasType(agg_result.input, {"bundle_shipped"})
    /\ HasType(agg_result.input, {"oos_detected"})
    /\ HasType(agg_result.input, PATypes)
    /\ agg_result.built.current_stage = "shipped"

SameStatesAndCounters(a, b) ==
    /\ a.current_stage = b.current_stage
    /\ a.pa_state = b.pa_state
    /\ a.bundle_timing_state = b.bundle_timing_state
    /\ a.total_events = b.total_events
    /\ a.refill_events = b.refill_events
    /\ a.pa_events = b.pa_events
    /\ a.oos_events = b.oos_events
    /\ a.bundle_events = b.bundle_events

Reordered(events, f) == [i \in 1..Len(events) |-> events[f[i]]]

\* C3: aggregate over any reordering of the same events (one member and
\* refill, equal timestamps allowed) gives the same current_stage, pa_state,
\* bundle_timing_state and counters.
C3_OrderIndependent ==
    Built =>
        \A f \in Permutations(1..Len(agg_result.input)) :
            SameStatesAndCounters(
                BuildSnapshot(agg_result.built.snapshot_id,
                              Reordered(agg_result.input, f)),
                agg_result.built)

-----------------------------------------------------------------------------
(* Properties of the engine's calls (specification Spec) *)

Updated == agg_result.op = "update"

Cached(snapshot_id) == snapshot_id \in DOMAIN snapshot_cache

Belongs(event, snapshot) ==
    /\ event.member_id = snapshot.member_id
    /\ event.refill_id = snapshot.refill_id

CategoryCount(s, event) ==
    CASE EventClass(event.event_type) = "RefillEvent" -> s.refill_events
      [] EventClass(event.event_type) = "PAEvent" -> s.pa_events
      [] EventClass(event.event_type) = "OSEvent" -> s.oos_events
      [] EventClass(event.event_type) = "BundleEvent" -> s.bundle_events

\* C7: an update of a cached snapshot with an event of the same member and
\* refill returns a snapshot, and the entry cached under the identifier
\* then lists the previous event identifiers plus the new one, with the
\* counters of the recompute over all of them.
C7_UpdateRecomputes ==
    [][\A snapshot_id \in SnapshotIds, e \in EnginePool :
         (/\ Cached(snapshot_id)
          /\ Belongs(e, snapshot_cache[snapshot_id])
          /\ agg_result'.op = "update"
          /\ agg_result'.sid = snapshot_id
          /\ agg_result'.input = <<e>>
          /\ agg_result' # agg_result)
         => /\ agg_result'.outcome = "returned"
            /\ agg_result'.value.snapshot_id # 0
            /\ snapshot_cache'[snapshot_id] = agg_result'.value
            /\ agg_result'.value.event_ids =
                   Append(snapshot_cache[snapshot_id].event_ids, e.event_id)
            /\ agg_result'.value.total_events =
                   Len(agg_result'.value.event_ids)
            /\ CategoryCount(agg_result'.value, e) =
                   CategoryCount(snapshot_cache[snapshot_id], e) + 1]_vars

\* C8: an update of a cached snapshot with an event of another member or
\* refill returns without raising, and what it returns differs from the
\* not-found result of an unknown identifier.
C8_MismatchSignal ==
    (/\ Updated
     /\ Cached(agg_result.sid)
     /\ ~Belongs(agg_result.input[1], snapshot_cache[agg_result.sid]))
    => /\ agg_result.outcome = "returned"
       /\ agg_result.value # NoSnapshot

\* C9: an update with an identifier that is not cached returns none without
\* raising and leaves the cache and both indices as they were.
C9_UpdateNotFound ==
    [][(/\ ~Cached(agg_result'.sid)
        /\ agg_result'.op = "update")
       => /\ agg_result'.outcome = "returned"
          /\ agg_result'.value = NoSnapshot
          /\ UNCHANGED <<snapshot_cache, event_index, bundle_index>>]_vars

\* a not-found update on an engine that holds snapshots
C9_Witness ==
    /\ Updated
    /\ ~Cached(agg_result.sid)
    /\ agg_result.outcome = "returned"
    /\ agg_result.value = NoSnapshot
    /\ DOMAIN snapshot_cache # {}

\* C10: aggregate of an empty list raises ValueError and adds nothing to
\* the cache or to the member and bundle indices.
C10_EmptyRaises ==
    [][(/\ agg_result'.op = "aggregate"
        /\ agg_result'.input = << >>)
       => /\ agg_result'.outcome = "raised"
          /\ agg_result'.exc = "ValueError"
          /\ UNCHANGED <<snapshot_cache, event_index, bundle_index>>]_vars

\* an empty aggregate on an engine that holds snapshots
C10_Witness ==
    /\ agg_result.op = "aggregate"
    /\ agg_result.input = << >>
    /\ agg_result.exc = "ValueError"
    /\ DOMAIN snapshot_cache # {}

-----------------------------------------------------------------------------
(* Properties of the risk scorer *)

Batched == risk_result.op = "assess_batch"

\* the metrics of a batch that are due an abandonment assessment
DueAbandonment(metrics_list, refill_id) ==
    {i \in 1..Len(metrics_list) :
        /\ metrics_list[i].refill_id = refill_id
        /\ \/ metrics_list[i].bundle_id = NoneStr
           \/ Len(BundleGroup(metrics_list, metrics_list[i].bundle_id)) > 1}

AbandonmentsOf(risks, refill_id) ==
    {i \in 1..Len(risks) :
        /\ risks[i].risk_type = "refill_abandonment"
        /\ risks[i].refill_id = refill_id}

BundleBreaksOf(risks, bundle_id) ==
    {i \in 1..Len(risks) :
        /\ risks[i].risk_type = "bundle_break"
        /\ risks[i].bundle_id = bundle_id}

\* C5: assess_batch returns one abandonment assessment and no bundle-break
\* assessment for each metric without a bundle, and for each bundle shared
\* by several metrics one bundle-break assessment computed from the first
\* metric of the group plus one abandonment assessment per metric of it
\* (specification SpecRisk).
C5_BatchGrouping ==
    Batched =>
        /\ risk_result.outcome = "returned"
        /\ \A i \in 1..Len(risk_result.input) :
             Cardinality(AbandonmentsOf(risk_result.value,
                                        risk_result.input[i].refill_id))
               = Cardinality(DueAbandonment(risk_result.input,
                                            risk_result.input[i].refill_id))
        /\ \A bundle_id \in Bundles :
             LET group == BundleGroup(risk_result.input, bundle_id)
                 breaks == BundleBreaksOf(risk_result.value, bundle_id)
             IN IF Len(group) > 1
                THEN /\ Cardinality(breaks) = 1
                     /\ \A j \in breaks :
                          risk_result.value[j].probability =
                              ComputeBreakProbability(group[1])
                ELSE breaks = {}

\* C6: what assess_batch returns holds at least one assessment for every
\* metric of its input; two metrics of two different bundles give two
\* assessments, one bundle-break and one abandonment
\* (specification SpecRisk).
C6_BatchCoversEveryMetric ==
    (Batched /\ risk_result.outcome = "returned") =>
        /\ Len(risk_result.value) >= Len(risk_result.input)
        /\ (/\ Len(risk_result.input) = 2
            /\ risk_result.input[1].bundle_id # NoneStr
            /\ risk_result.input[2].bundle_id # NoneStr
            /\ risk_result.input[1].bundle_id # risk_result.input[2].bundle_id)
           => /\ Len(risk_result.value) = 2
              /\ \E j, k \in 1..2 :
                   /\ risk_result.value[j].risk_type = "bundle_break"
                   /\ risk_result.value[k].risk_type = "refill_abandonment"

-----------------------------------------------------------------------------
(* Side calls (specification Spec) *)

\* C11: when the audit call of an aggregate fails, the aggregate still
\* returns the snapshot it built: the failure of the side call does not
\* reach the caller.
C11_SideCallFailureSwallowed ==
    (Built /\ AuditCall(audit_logger, "log_snapshot_aggregated") # "ok")
        => /\ agg_result.outcome = "returned"
           /\ agg_result.value = agg_result.built

-----------------------------------------------------------------------------
(* Properties of compute_metrics (specification SpecMetrics) *)

Computed == metrics_result.op = "compute"

\* a snapshot of events whose alignment score, if any, lies in [0, 1]
WellFormedSnapshot(s) == s.bundle_alignment_score \in {None} \cup (0..100)

\* C12: for every snapshot aggregate builds from well-formed events, in
\* any stage and with or without the milestone timestamp of its stage,
\* compute returns a Metrics record without raising (the audit call being
\* one that succeeds).
C12_ComputeTotal ==
    (/\ Computed
     /\ WellFormedSnapshot(metrics_result.snapshot)
     /\ AuditCall(audit_logger, "log_metrics_computed") = "ok")
    => metrics_result.outcome = "returned"

-----------------------------------------------------------------------------
(* Properties of the single assessments (specification SpecAssess) *)

Assessed == risk_result.op \in {"assess_bundle_break", "assess_abandonment"}

\* what compute can return: no record of the stages shipped and completed,
\* and none without a stage age percentile
Producible(metrics) ==
    /\ metrics.current_stage \notin {"shipped", "completed"}
    /\ metrics.stage_age_percentile # None

\* C13: for every Metrics record compute can produce, in any stage,
\* assess_bundle_break_risk and assess_abandonment_risk each return a Risk
\* Assessment without raising (the audit call being one that succeeds).
C13_AssessTotal ==
    (/\ Assessed
     /\ Producible(risk_result.input[1])
     /\ AuditCall(audit_logger, "log_risk_assessment") = "ok")
    => /\ risk_result.outcome = "returned"
       /\ Len(risk_result.value) = 1

\* every driver of q has at least the impact of the drivers after it
Descending(q) ==
    \A i, j \in 1..Len(q) : i < j => q[i].impact_score >= q[j].impact_score

\* the ranking of C14 on a pair of driver lists
Ranked(primary, secondary) ==
    /\ Len(primary) <= 2
    /\ Len(secondary) > 0 => Len(primary) = 2
    /\ Descending(primary \o secondary)

\* C14: in every risk assessment the drivers are ordered by descending
\* impact and split so that primary_drivers holds the first two (all of
\* them when fewer are emitted) and secondary_drivers the rest; the same
\* holds of the two lists _identify_abandonment_drivers hands back.
C14_DriverRanking ==
    /\ \A id \in DOMAIN risk_cache :
         /\ Ranked(risk_cache[id].primary_drivers,
                   risk_cache[id].secondary_drivers)
    /\ \A i \in 1..Len(risk_result.value) :
         Ranked(risk_result.value[i].primary_drivers,
                risk_result.value[i].secondary_drivers)
    /\ (risk_result.op = "assess_abandonment"
        /\ risk_result.exc = "AttributeError")
       => LET split == IdentifyAbandonmentDrivers(risk_result.input[1])
          IN /\ Ranked(split.primary, split.secondary)
             /\ Len(split.primary) + Len(split.secondary)
                  = Len(AbandonmentDrivers(risk_result.input[1]))

\* a bundle-break assessment of four drivers that were emitted in another
\* order than their impacts: two primary, two secondary
C14_Witness ==
    /\ risk_result.op = "assess_bundle_break"
    /\ risk_result.outcome = "returned"
    /\ Len(risk_result.value[1].primary_drivers) = 2
    /\ Len(risk_result.value[1].secondary_drivers) = 2
    /\ ~Descending(BundleBreakDrivers(risk_result.input[1]))
    /\ risk_result.value[1].primary_drivers[1].impact_score
         > risk_result.value[1].secondary_drivers[2].impact_score

-----------------------------------------------------------------------------
(* Properties of the configuration (specification SpecConfig) *)

Configured == risk_result.op = "config"

OutsideUnit(thresholds) ==
    \E key \in DOMAIN thresholds :
        thresholds[key] < 0 \/ thresholds[key] > 10000

\* C15: constructing a risk model configuration fails with a validation
\* error when the driver weights sum to a value further than 0.01 from 1.0
\* or a break or abandonment threshold lies outside [0, 1], and succeeds
\* otherwise, the configuration then holding the values given.
C15_ConfigValidation ==
    Configured =>
        LET break_risk_thresholds == risk_result.input[1]
            abandonment_risk_thresholds == risk_result.input[2]
            total_weight == SumSeq(risk_result.input[3])
            invalid == \/ total_weight < 9900
                       \/ total_weight > 10100
                       \/ OutsideUnit(break_risk_thresholds)
                       \/ OutsideUnit(abandonment_risk_thresholds)
        IN IF invalid
           THEN /\ risk_result.outcome = "raised"
                /\ risk_result.exc = "ValidationError"
           ELSE /\ risk_result.outcome = "returned"
                /\ risk_result.value[1].break_risk_thresholds
                     = break_risk_thresholds
                /\ risk_result.value[1].driver_weights = risk_result.input[3]

\* weights that sum to 0.995 were accepted with thresholds at both ends of
\* [0, 1]
C15_Witness ==
    /\ Configured
    /\ SumSeq(risk_result.input[3]) = 9950
    /\ risk_result.input[1].low = 0
    /\ risk_result.input[2].medium = 10000
    /\ risk_result.outcome = "returned"

\* ---------------------------------------------------------------------
\* Properties of the scores of compute_metrics (specification SpecMetrics)
\* ---------------------------------------------------------------------

ComputeReturned == Computed /\ metrics_result.outcome = "returned"

\* C16 as stated: compute maps the overall risk score s of a metrics
\* record to its severity by the buckets s < 0.3 low, 0.3 <= s < 0.6
\* medium, 0.6 <= s < 0.9 high and s >= 0.9 critical.
C16_SeverityBucketsAsStated ==
    ComputeReturned =>
        LET s == metrics_result.value.overall_risk_score
        IN metrics_result.value.risk_severity =
               IF s < 3000 THEN "low"
               ELSE IF s < 6000 THEN "medium"
               ELSE IF s < 9000 THEN "high"
               ELSE "critical"

\* C16 amended: compute maps the overall risk score s of a metrics record
\* to its severity by the buckets s < 0.6 low, 0.6 <= s < 0.8 medium,
\* 0.8 <= s < 0.9 high and s >= 0.9 critical.
C16_SeverityBuckets ==
    ComputeReturned =>
        LET s == metrics_result.value.overall_risk_score
        IN metrics_result.value.risk_severity =
               IF s < 6000 THEN "low"
               ELSE IF s < 8000 THEN "medium"
               ELSE IF s < 9000 THEN "high"
               ELSE "critical"

\* a record with a score between 0.6 and 0.8 was returned, where the
\* stated and the amended buckets differ
C16_Witness ==
    /\ ComputeReturned
    /\ metrics_result.value.overall_risk_score >= 6000
    /\ metrics_result.value.overall_risk_score < 8000
    /\ metrics_result.value.risk_severity = "medium"

\* ---------------------------------------------------------------------
\* Properties of repeated aggregation (specification SpecRepeat)
\* ---------------------------------------------------------------------

\* C17: after any sequence of aggregate and update calls on one
\* aggregator the cache holds at most one snapshot for each (member,
\* refill) pair.
C17_OneSnapshotPerPair ==
    \A i, j \in DOMAIN snapshot_cache :
        (/\ snapshot_cache[i].member_id = snapshot_cache[j].member_id
         /\ snapshot_cache[i].refill_id = snapshot_cache[j].refill_id)
            => i = j

\* x is q = num / den rounded down to a multiple of 1/10000, for den > 0
FloorOf(x, num, den) == x * den <= num * 10000 /\ num * 10000 < (x + 1) * den

\* C18: with d the days since the last fill of the snapshot, a returned
\* metrics record has abandonment_risk 0 when d <= 60 or d is absent,
\* min(0.5, (d - 60) / 60) when 60 < d <= 90 and min(1, (d - 90) / 90) when
\* d > 90; d = 200 gives 1.0 and d = 70 gives 10/60.
C18_AbandonmentRiskCurve ==
    ComputeReturned =>
        LET d == metrics_result.snapshot.days_since_last_fill
            risk == metrics_result.value.refill_gap.abandonment_risk
        IN /\ (d = None \/ d <= 60) => risk = 0
           /\ (d # None /\ 60 < d /\ d <= 90) =>
                  IF (d - 60) * 2 >= 60 THEN risk = 5000
                  ELSE FloorOf(risk, d - 60, 60)
           /\ (d # None /\ d > 90) =>
                  IF d - 90 >= 90 THEN risk = 10000
                  ELSE FloorOf(risk, d - 90, 90)
           /\ d = 200 => risk = 10000
           /\ d = 70 => FloorOf(risk, 10, 60)

\* a record was returned for a snapshot whose last fill was 70 days ago,
\* with a risk of 10/60 rounded down
C18_Witness ==
    /\ ComputeReturned
    /\ metrics_result.snapshot.days_since_last_fill = 70
    /\ metrics_result.value.refill_gap.abandonment_risk = 1666

\* v is a score between 0 and 1
InUnit(v) == 0 <= v /\ v <= 10000

\* C19: every score of every returned metrics record (overlap,
\* fragmentation risk, alignment efficiency, abandonment risk, urgency,
\* gap efficiency, alignment, split risk, bundle health and overall risk)
\* lies in [0, 1], for every snapshot and every list of sibling snapshots.
C19_ScoresInUnit ==
    ComputeReturned =>
        LET m == metrics_result.value
        IN /\ InUnit(m.timing_overlap.refill_overlap_score)
           /\ InUnit(m.timing_overlap.fragmentation_risk)
           /\ InUnit(m.timing_overlap.alignment_efficiency)
           /\ InUnit(m.refill_gap.abandonment_risk)
           /\ InUnit(m.refill_gap.urgency_score)
           /\ InUnit(m.refill_gap.gap_efficiency_score)
           /\ InUnit(m.bundle_alignment.bundle_alignment_score)
           /\ InUnit(m.bundle_alignment.split_risk_score)
           /\ InUnit(m.bundle_alignment.bundle_health_score)
           /\ InUnit(m.overall_risk_score)

\* a record was returned for a bundle whose due dates lie more than 30
\* days apart and whose last fill was more than 180 days ago: the
\* unclamped alignment efficiency would be negative, the unclamped
\* fragmentation and abandonment risks above 1
C19_Witness ==
    /\ ComputeReturned
    /\ Len(metrics_result.bundle_snapshots) >= 2
    /\ metrics_result.value.timing_overlap.max_timing_gap_days > 30
    /\ metrics_result.value.timing_overlap.alignment_efficiency = 0
    /\ metrics_result.value.timing_overlap.fragmentation_risk = 10000
    /\ metrics_result.snapshot.days_since_last_fill > 180
    /\ metrics_result.value.refill_gap.abandonment_risk = 10000

\* ---------------------------------------------------------------------
\* Properties of the risk queries (specification SpecQuery)
\* ---------------------------------------------------------------------

QueriedBySeverity ==
    risk_result.op = "query" /\ risk_result.input[1] # NoneStr

\* the identifiers of the cached assessments of one severity
CachedOfSeverity(severity) ==
    {i \in DOMAIN risk_cache : risk_cache[i].severity = severity}

-----------------------------------------------------------------------------
(* Properties of the fold (specification SpecFold) *)

\* the timestamps of the events of one type
TimestampsOf(events, event_type) ==
    {events[i].event_timestamp :
        i \in {j \in 1..Len(events) : events[j].event_type = event_type}}

\* the timestamp of the first event of one type in sorted order
FirstTimestampOf(events, event_type) ==
    CHOOSE t \in TimestampsOf(events, event_type) :
        \A u \in TimestampsOf(events, event_type) : t <= u

\* C21: when the events contain several events of one milestone-defining
\* type, the milestone timestamp of the snapshot is that of the first such
\* event in sorted order (initiated_timestamp that of the earliest
\* refill_initiated event, eligible_timestamp that of the earliest
\* refill_eligible event), not that of a later one.
C21_MilestoneFirstOccurrence ==
    Built =>
        /\ TimestampsOf(agg_result.input, "refill_initiated") # {} =>
              agg_result.built.initiated_timestamp =
                  FirstTimestampOf(agg_result.input, "refill_initiated")
        /\ TimestampsOf(agg_result.input, "refill_eligible") # {} =>
              agg_result.built.eligible_timestamp =
                  FirstTimestampOf(agg_result.input, "refill_eligible")

-----------------------------------------------------------------------------
(* Frame of update_snapshot_with_event (specification Spec) *)

\* C22: if update(snapshot_id, e) does not return an updated snapshot (it
\* returns none or raises), the snapshot cached under snapshot_id is
\* unchanged by the call: its event identifiers, total_events and
\* latest_event_timestamp are the same as before.
C22_FailedUpdateLeavesSnapshot ==
    [][(/\ agg_result'.op = "update"
        /\ Cached(agg_result'.sid)
        /\ \/ agg_result'.outcome = "raised"
           \/ agg_result'.value = NoSnapshot)
       => /\ agg_result'.sid \in DOMAIN snapshot_cache'
          /\ snapshot_cache'[agg_result'.sid].event_ids =
                 snapshot_cache[agg_result'.sid].event_ids
          /\ snapshot_cache'[agg_result'.sid].total_events =
                 snapshot_cache[agg_result'.sid].total_events
          /\ snapshot_cache'[agg_result'.sid].latest_event_timestamp =
                 snapshot_cache[agg_result'.sid].latest_event_timestamp]_vars

-----------------------------------------------------------------------------
(* Null fields in the fold (specification SpecFold) *)

\* the sorted events of one class that carry a non-null value of a field
CarryingPaType(events) ==
    SelectSeq(SortByTimestamp(events),
              LAMBDA e : EventClass(e.event_type) = "PAEvent"
                         /\ e.pa_type # NoneStr)

CarryingAlignmentScore(events) ==
    SelectSeq(SortByTimestamp(events),
              LAMBDA e : EventClass(e.event_type) = "RefillEvent"
                         /\ e.bundle_alignment_score # None)

Last(q) == q[Len(q)]

\* C23: while folding events in sorted order a snapshot field is
\* overwritten only by a non-null value of the corresponding event field:
\* an event that carries null for the PA type or the alignment score never
\* erases the value set by an earlier event, and among non-null values the
\* one from the later-sorted event is kept.
C23_NullNeverErases ==
    Built =>
        /\ CarryingPaType(agg_result.input) # << >> =>
              agg_result.built.pa_type =
                  Last(CarryingPaType(agg_result.input)).pa_type
        /\ CarryingAlignmentScore(agg_result.input) # << >> =>
              agg_result.built.bundle_alignment_score =
                  Last(CarryingAlignmentScore(agg_result.input))
                      .bundle_alignment_score

-----------------------------------------------------------------------------
(* Failure of one assessment in a batch (specification SpecBatch) *)

\* the assessments of a batch in processing order: an abandonment
\* assessment per metric without a bundle, then for each bundle of several
\* metrics its bundle-break assessment and an abandonment assessment per
\* metric of it
RECURSIVE GroupItems(_, _)
GroupItems(metrics_list, keys) ==
    IF keys = << >> THEN << >>
    ELSE LET group == BundleGroup(metrics_list, Head(keys))
             items == <<[kind |-> "bundle_break", metrics |-> group[1]]>>
                      \o [i \in 1..Len(group) |->
                            [kind |-> "abandonment", metrics |-> group[i]]]
         IN (IF Len(group) > 1 THEN items ELSE << >>)
            \o GroupItems(metrics_list, Tail(keys))

BatchItems(metrics_list) ==
    LET single == SelectSeq(metrics_list, HasNoBundle)
    IN [i \in 1..Len(single) |->
          [kind |-> "abandonment", metrics |-> single[i]]]
       \o GroupItems(metrics_list, BundleGroupKeys(metrics_list))

\* one assessment of the batch made on its own
ItemResult(item) ==
    IF item.kind = "bundle_break"
    THEN AssessBundleBreakRisk(RiskEngine, audit_logger, item.metrics)
    ELSE AssessAbandonmentRisk(RiskEngine, audit_logger, item.metrics)

ItemRaises(item) == ItemResult(item).outcome = "raised"

ItemCaches(item) == ItemResult(item).eng.cache # risk_cache

\* the position of the first assessment that raises, 0 if none does
FirstFailure(items) ==
    IF \E i \in 1..Len(items) : ItemRaises(items[i])
    THEN CHOOSE i \in 1..Len(items) :
            /\ ItemRaises(items[i])
            /\ \A j \in 1..(i - 1) : ~ItemRaises(items[j])
    ELSE 0

\* C24: if the assessment of one entity raises during assess_batch, the
\* exception propagates to the caller and no entity that comes later in
\* the processing order is assessed: the call adds to the risk cache only
\* what the assessments up to the failing one cached.
C24_BatchStopsAtFailure ==
    [][risk_result'.op = "assess_batch" =>
         LET items == BatchItems(risk_result'.input)
             failed == FirstFailure(items)
             added == DOMAIN risk_cache' \ DOMAIN risk_cache
         IN failed # 0 =>
              /\ risk_result'.outcome = "raised"
              /\ risk_result'.exc = ItemResult(items[failed]).exc
              /\ Cardinality(added) =
                   Cardinality({i \in 1..failed : ItemCaches(items[i])})]_vars

\* a batch raised on a metric without a bundle and left the cache as it
\* was, although a bundle of two metrics came later in its processing order
C24_Witness ==
    /\ risk_result.op = "assess_batch"
    /\ risk_result.outcome = "raised"
    /\ audit_logger = "collaborator"
    /\ Len(risk_result.input) = 3
    /\ HasNoBundle(risk_result.input[3])
    /\ risk_result.input[1].bundle_id = risk_result.input[2].bundle_id
    /\ risk_result.input[1].bundle_id # NoneStr
    /\ ~StageAgingRaises(risk_result.input[1])
    /\ ~AgingDriverRaises(risk_result.input[1], 60)
    /\ risk_cache = << >>

-----------------------------------------------------------------------------
(* Version registry (specification SpecRisk) *)

\* the registry records of one artifact
RecordsOf(risk_id) ==
    {i \in 1..Len(version_records) : version_records[i] = risk_id}

\* C25: after any sequence of assess_bundle_break_risk,
\* assess_abandonment_risk and assess_batch calls the version registry
\* holds exactly one record for each risk assessment in the risk cache.
C25_OneRecordPerAssessment ==
    /\ \A risk_id \in DOMAIN risk_cache : Cardinality(RecordsOf(risk_id)) = 1
    /\ \A i \in 1..Len(version_records) :
          version_records[i] \in DOMAIN risk_cache

-----------------------------------------------------------------------------
(* Alignment score of compute_metrics (specification SpecMetrics) *)

\* C26: a returned metrics record carries the snapshot's alignment score
\* as its bundle alignment score whenever the snapshot has one, for every
\* value in [0, 1] including 0.0, and the default 0.5 only when the
\* snapshot has none.
C26_AlignmentScoreReused ==
    ComputeReturned =>
        LET score == metrics_result.snapshot.bundle_alignment_score
            reused == metrics_result.value.bundle_alignment.bundle_alignment_score
        IN IF score # None THEN reused = score * 100 ELSE reused = 5000

-----------------------------------------------------------------------------
(* Abandonment probability (specification SpecProbability) *)

ProbabilityComputed ==
    risk_result.op = "abandonment_probability"
    /\ risk_result.outcome = "returned"

-----------------------------------------------------------------------------
(* Order of the sibling snapshots (specification SpecMetrics) *)

\* p lists the elements of q in some order
IsPermutation(p, q) ==
    /\ Len(p) = Len(q)
    /\ \E f \in [1..Len(q) -> 1..Len(q)] :
          /\ \A i, j \in 1..Len(q) : f[i] = f[j] => i = j
          /\ \A i \in 1..Len(q) : p[i] = q[f[i]]

\* C28: the timing overlap metrics of a returned record (timing variance,
\* overlap score, fragmentation risk, alignment efficiency) do not depend
\* on the order of the sibling snapshots: any permutation of the same
\* sibling list gives the same values.
C28_SiblingOrderIndependent ==
    ComputeReturned =>
        \A permuted \in SiblingLists :
            IsPermutation(permuted, metrics_result.bundle_snapshots) =>
                ComputeTimingOverlapMetrics(
                    metrics_result.snapshot,
                    GetBundleContext(metrics_result.snapshot, permuted))
                  = metrics_result.value.timing_overlap

-----------------------------------------------------------------------------
(* Monotonicity of the abandonment risk (specification SpecMetrics) *)

\* the days since the last fill that a snapshot of the model can carry
FillDays == 0..(Now + 300)

\* C29: abandonment_risk is non-decreasing in the days since the last
\* fill: a returned record's abandonment_risk is at least that of every
\* smaller number of days and at most that of every larger one.
C29_AbandonmentRiskMonotone ==
    ComputeReturned =>
        LET d == OrZero(metrics_result.snapshot.days_since_last_fill)
            risk == metrics_result.value.refill_gap.abandonment_risk
        IN \A d1 \in FillDays :
              /\ d1 <= d => ComputeRefillGapMetrics(
                                [metrics_result.snapshot
                                   EXCEPT !.days_since_last_fill = d1]
                            ).abandonment_risk <= risk
              /\ d <= d1 => risk <= ComputeRefillGapMetrics(
                                [metrics_result.snapshot
                                   EXCEPT !.days_since_last_fill = d1]
                            ).abandonment_risk

\* get_member_metrics(member_id) and get_bundle_metrics(bundle_id) up to
\* the order of the result: one record for every entry of the index whose
\* identifier is cached; the sort by computed_timestamp permutes the list
\* and the limit of 100 lies above the number of entries
GetIndexedMetrics(index, cache, key) ==
    IF key \in DOMAIN index
    THEN SelectSeq(index[key], LAMBDA mid : mid \in DOMAIN cache)
    ELSE << >>

\* the sequence q names no identifier twice
NoDuplicates(q) == \A i, j \in DOMAIN q : q[i] = q[j] => i = j

\* C30: after any sequence of compute calls, several calls for the same
\* snapshot included, the member index and the bundle index hold each
\* cached metrics identifier at most once, so get_member_metrics and
\* get_bundle_metrics never return the same record twice
C30_IndicesHoldIdOnce ==
    /\ \A m \in DOMAIN member_metrics_index :
         /\ NoDuplicates(member_metrics_index[m])
         /\ NoDuplicates(GetIndexedMetrics(member_metrics_index,
                                           metrics_cache, m))
    /\ \A b \in DOMAIN bundle_metrics_index :
         /\ NoDuplicates(bundle_metrics_index[b])
         /\ NoDuplicates(GetIndexedMetrics(bundle_metrics_index,
                                           metrics_cache, b))

====
